---- MODULE Spec2Model ----
(***************************************************************************)
(* Model of the pharmacy receipt collector (src/app.py): the receipt text  *)
(* parser (extract_sales_data and the per-item parser), the JSON file      *)
(* store (DataManager) and the polling loop that feeds it.                 *)
(*                                                                         *)
(* Text is modelled character by character: a Python str is a sequence of  *)
(* one-character strings.  A Cyrillic letter of the source is written as   *)
(* "c" and its Latin transliteration, so that it differs from every Latin  *)
(* letter ("cT" is the Cyrillic capital Te, "T" the Latin T):              *)
(*   the tax-code label (6 letters, line 482)    cU cK cT cZ cE cD         *)
(*   the barcode label (9 characters, line 486)  cW ct cr ci cx - ck co cd *)
(*   the unit suffix (2 letters, line 490)       cw ct                     *)
(*   the tax markers (lines 501, 505)            (cA) (cB) (cV), cA-cG     *)
(***************************************************************************)
EXTENDS Integers, Sequences, FiniteSets, TLC

(***************************************************************************)
(* Bounds of the model.                                                    *)
(***************************************************************************)
\* lines per item fed to the item parser
MaxLines == 2

\* items (segments) per receipt of several items
MaxSegments == 3

(***************************************************************************)
(* Python str primitives.                                                  *)
(***************************************************************************)
Digits == {"0", "1", "2", "3", "4", "5", "6", "7", "8", "9"}

Whitespace == {" ", "\n", "\t"}

IsDigit(c) == c \in Digits

DigitVal(c) ==
  CASE c = "0" -> 0 [] c = "1" -> 1 [] c = "2" -> 2 [] c = "3" -> 3
    [] c = "4" -> 4 [] c = "5" -> 5 [] c = "6" -> 6 [] c = "7" -> 7
    [] c = "8" -> 8 [] c = "9" -> 9

DigitChar(d) ==
  CASE d = 0 -> "0" [] d = 1 -> "1" [] d = 2 -> "2" [] d = 3 -> "3"
    [] d = 4 -> "4" [] d = 5 -> "5" [] d = 6 -> "6" [] d = 7 -> "7"
    [] d = 8 -> "8" [] d = 9 -> "9"

SetMin(S) == CHOOSE x \in S : \A y \in S : x <= y

SetMax(S) == CHOOSE x \in S : \A y \in S : x >= y

\* `sub in s`
Contains(s, sub) ==
  \E i \in 1..(Len(s) - Len(sub) + 1) : SubSeq(s, i, i + Len(sub) - 1) = sub

\* s.find(sub) + 1, 0 when absent
Find(s, sub) ==
  LET hits == {i \in 1..(Len(s) - Len(sub) + 1) :
                 SubSeq(s, i, i + Len(sub) - 1) = sub}
  IN  IF hits = {} THEN 0 ELSE SetMin(hits)

\* s.strip()
Strip(s) ==
  LET keep == {i \in 1..Len(s) : s[i] \notin Whitespace}
  IN  IF keep = {} THEN <<>> ELSE SubSeq(s, SetMin(keep), SetMax(keep))

\* s.split(sep), sep non-empty
RECURSIVE Split(_, _)
Split(s, sep) ==
  LET i == Find(s, sep)
  IN  IF i = 0 THEN <<s>>
      ELSE <<SubSeq(s, 1, i - 1)>> \o Split(SubSeq(s, i + Len(sep), Len(s)), sep)

RECURSIVE Concat(_)
Concat(parts) ==
  IF parts = <<>> THEN <<>> ELSE Head(parts) \o Concat(Tail(parts))

\* s.replace(sub, '')
Remove(s, sub) == Concat(Split(s, sub))

\* sep.join(parts)
RECURSIVE Join(_, _)
Join(parts, sep) ==
  IF parts = <<>> THEN <<>>
  ELSE IF Len(parts) = 1 THEN parts[1]
  ELSE parts[1] \o sep \o Join(Tail(parts), sep)

\* s.isdigit()
IsDigitStr(s) == s # <<>> /\ \A i \in 1..Len(s) : IsDigit(s[i])

\* any(char.isdigit() for char in s)
AnyDigit(s) == \E i \in 1..Len(s) : IsDigit(s[i])

\* index of the last character of the maximal run of characters of cls
\* that starts at i (s[i] is in cls)
RunEnd(s, i, cls) ==
  SetMax({j \in i..Len(s) : \A k \in i..j : s[k] \in cls})

\* first index >= j that is not whitespace (Len(s) + 1 when there is none)
SkipWs(s, j) ==
  SetMin({k \in j..(Len(s) + 1) : k = Len(s) + 1 \/ s[k] \notin Whitespace})

\* SubSeq that tolerates an end past the string
Slice(s, i, j) == SubSeq(s, i, IF j > Len(s) THEN Len(s) ELSE j)

(***************************************************************************)
(* The literals of the item parser.                                        *)
(***************************************************************************)
LabelUktzed == <<"cU", "cK", "cT", "cZ", "cE", "cD">>

LabelBarcode == <<"cW", "ct", "cr", "ci", "cx", "-", "ck", "co", "cd">>

UnitSuffix == <<"cw", "ct">>

TaxMarkers == {<<"(", "cA", ")">>, <<"(", "cB", ")">>, <<"(", "cV", ")">>}

\* the character class of the price regex of line 505
MarkerClass == {"cA", "cB", "cV", "cG"}

ItemSeparator ==
  <<"=", "=", "=", "I", "T", "E", "M", "_", "S", "E", "P", "A", "R", "A",
    "T", "O", "R", "=", "=", "=">>

Empty == <<>>

(***************************************************************************)
(* The regular expressions of the item parser.  Each returns the matched   *)
(* group, or NoMatch.  With a greedy class run followed by \s* and a fixed *)
(* tail, re.search's leftmost match is the first maximal run of the class  *)
(* that is followed by optional whitespace and the tail.                   *)
(***************************************************************************)
NoMatch == <<"no match">>

\* start indexes of the maximal runs of cls in s
RunStarts(s, cls) ==
  {i \in 1..Len(s) : s[i] \in cls /\ (i = 1 \/ s[i - 1] \notin cls)}

\* re.search(r'(\d+)\s*<unit suffix>', s), group(1)
QuantityMatch(s) ==
  LET hits == {i \in RunStarts(s, Digits) :
                 LET k == SkipWs(s, RunEnd(s, i, Digits) + 1)
                 IN  Slice(s, k, k + Len(UnitSuffix) - 1) = UnitSuffix}
  IN  IF hits = {} THEN NoMatch
      ELSE SubSeq(s, SetMin(hits), RunEnd(s, SetMin(hits), Digits))

PriceChars == Digits \cup {".", ","}

\* re.search(r'([\d\.,]+)\s*\([cA-cG]\)', s), group(1)
PriceMatch(s) ==
  LET hits == {i \in RunStarts(s, PriceChars) :
                 LET k == SkipWs(s, RunEnd(s, i, PriceChars) + 1)
                 IN  /\ k + 2 <= Len(s)
                     /\ s[k] = "("
                     /\ s[k + 1] \in MarkerClass
                     /\ s[k + 2] = ")"}
  IN  IF hits = {} THEN NoMatch
      ELSE SubSeq(s, SetMin(hits), RunEnd(s, SetMin(hits), PriceChars))

\* re.match(r'^\d+[\.,]?\d*\s*$', s)
BareNumberMatch(s) ==
  /\ s # <<>>
  /\ IsDigit(s[1])
  /\ LET a == RunEnd(s, 1, Digits) + 1
         b == IF a <= Len(s) /\ s[a] \in {".", ","} THEN a + 1 ELSE a
         c == IF b <= Len(s) /\ IsDigit(s[b]) THEN RunEnd(s, b, Digits) + 1 ELSE b
     IN  SkipWs(s, c) = Len(s) + 1

\* re.match(r'^\d+[\.,]\d+$', s)
DecimalMatch(s) ==
  /\ s # <<>>
  /\ IsDigit(s[1])
  /\ LET a == RunEnd(s, 1, Digits) + 1
     IN  /\ a + 1 <= Len(s)
         /\ s[a] \in {".", ","}
         /\ \A k \in (a + 1)..Len(s) : IsDigit(s[k])

(***************************************************************************)
(* float(s) and f"{x:.2f}".  A parsed number is num / 10^scale.  The sign, *)
(* exponent, inf/nan and underscore forms of float() need characters that  *)
(* no modelled line holds.                                                 *)
(***************************************************************************)
RECURSIVE StrToInt(_)
StrToInt(s) ==
  IF s = <<>> THEN 0
  ELSE 10 * StrToInt(SubSeq(s, 1, Len(s) - 1)) + DigitVal(s[Len(s)])

RECURSIVE IntToStr(_)
IntToStr(n) ==
  IF n < 10 THEN <<DigitChar(n)>>
  ELSE IntToStr(n \div 10) \o <<DigitChar(n % 10)>>

RECURSIVE Pow10(_)
Pow10(k) == IF k = 0 THEN 1 ELSE 10 * Pow10(k - 1)

\* does float(s) return (TRUE) or raise ValueError (FALSE)
IsFloat(s) ==
  LET t == Strip(s)
      dots == {i \in 1..Len(t) : t[i] = "."}
  IN  /\ \A i \in 1..Len(t) : t[i] \in Digits \cup {"."}
      /\ Cardinality(dots) <= 1
      /\ AnyDigit(t)

\* float(s) for IsFloat(s)
ParseFloat(s) ==
  LET t == Strip(s)
      d == Find(t, <<".">>)
  IN  IF d = 0 THEN [num |-> StrToInt(t), scale |-> 0]
      ELSE [num   |-> StrToInt(SubSeq(t, 1, d - 1) \o SubSeq(t, d + 1, Len(t))),
            scale |-> Len(t) - d]

\* s.replace(',', '.')
CommaToDot(s) == [i \in 1..Len(s) |-> IF s[i] = "," THEN "." ELSE s[i]]

\* the integers numer/denom can round to: the nearest one, and either
\* neighbour when numer/denom is a decimal tie, since which way the binary
\* double nearest to a tie falls is not decided by the decimal value
RoundSet(numer, denom) ==
  LET fl == numer \div denom
      rem == numer % denom
  IN  IF 2 * rem < denom THEN {fl}
      ELSE IF 2 * rem > denom THEN {fl + 1}
      ELSE {fl, fl + 1}

\* f"{h/100:.2f}" for a number of hundredths h >= 0
Fmt2(h) ==
  IntToStr(h \div 100) \o <<".", DigitChar((h % 100) \div 10), DigitChar(h % 10)>>

(***************************************************************************)
(* The item parser, _extract_single_item_sales_data.                       *)
(***************************************************************************)
\* the dict of lines 469-473
NewSalesData(item_index) ==
  [product_name |-> Empty, uktzed |-> Empty, barcode |-> Empty,
   quantity |-> <<"1">>, unit_price |-> Empty, total_price |-> Empty,
   currency |-> <<"U", "A", "H">>, price_details |-> Empty,
   price_breakdown |-> Empty, item_index |-> item_index]

\* lines = [line.strip() for line in item_content.split('\n') if line.strip()]
RECURSIVE StripNonEmpty(_)
StripNonEmpty(parts) ==
  IF parts = <<>> THEN <<>>
  ELSE IF Strip(Head(parts)) = <<>> THEN StripNonEmpty(Tail(parts))
  ELSE <<Strip(Head(parts))>> \o StripNonEmpty(Tail(parts))

ItemLines(item_content) == StripNonEmpty(Split(item_content, <<"\n">>))

\* the conditions of the if/elif chain of lines 482-508, in its order
IsUktzedLine(line) == Contains(line, LabelUktzed)

IsBarcodeLine(line) == Contains(line, LabelBarcode)

IsQuantityLine(line) ==
  Contains(line, <<"*">>) /\ AnyDigit(line) /\ Contains(line, UnitSuffix)

IsBreakdownLine(line) ==
  (\E m \in TaxMarkers : Contains(line, m)) /\ AnyDigit(line)

IsBarePriceLine(line) == BareNumberMatch(line) /\ Len(line) < 10

\* the body of the branch of lines 490-500
QuantityBranch(sd, line) ==
  LET parts == Split(line, <<"*">>)
      withDetails == [sd EXCEPT !.price_details = line]
  IN  IF Len(parts) >= 2
      THEN LET withUnit == [withDetails EXCEPT !.unit_price = Strip(parts[1])]
               qm == QuantityMatch(parts[2])
           IN  IF qm # NoMatch THEN [withUnit EXCEPT !.quantity = qm]
               ELSE withUnit
      ELSE withDetails

\* the body of the branch of lines 501-507
BreakdownBranch(sd, line) ==
  LET pm == PriceMatch(line)
      withBreakdown == [sd EXCEPT !.price_breakdown = line]
  IN  IF pm # NoMatch THEN [withBreakdown EXCEPT !.total_price = pm]
      ELSE withBreakdown

\* an iteration that writes a field only while the field is empty
ClassifyLineFirstWins(st, line) ==
  IF IsUktzedLine(line)
  THEN [sd  |-> IF st.sd.uktzed = Empty
                THEN [st.sd EXCEPT !.uktzed = Strip(Remove(line, LabelUktzed))]
                ELSE st.sd,
        ids |-> st.ids \cup {line}]
  ELSE IF IsBarcodeLine(line)
  THEN [sd  |-> IF st.sd.barcode = Empty
                THEN [st.sd EXCEPT !.barcode = Strip(Remove(line, LabelBarcode))]
                ELSE st.sd,
        ids |-> st.ids \cup {line}]
  ELSE IF IsQuantityLine(line)
  THEN [sd  |-> IF st.sd.price_details = Empty
                THEN QuantityBranch(st.sd, line) ELSE st.sd,
        ids |-> st.ids \cup {line}]
  ELSE IF IsBreakdownLine(line)
  THEN [sd  |-> IF st.sd.price_breakdown = Empty
                THEN BreakdownBranch(st.sd, line) ELSE st.sd,
        ids |-> st.ids \cup {line}]
  ELSE IF IsBarePriceLine(line)
  THEN [sd  |-> IF st.sd.total_price = Empty
                THEN [st.sd EXCEPT !.total_price = Strip(line)]
                ELSE st.sd,
        ids |-> st.ids]
  ELSE st

\* one iteration of the loop of lines 481-511 on the state
\* st = [sd |-> sales_data, ids |-> identified_patterns]
ClassifyLine(st, line) ==
  IF IsUktzedLine(line)
  THEN [sd  |-> [st.sd EXCEPT !.uktzed = Strip(Remove(line, LabelUktzed))],
        ids |-> st.ids \cup {line}]
  ELSE IF IsBarcodeLine(line)
  THEN [sd  |-> [st.sd EXCEPT !.barcode = Strip(Remove(line, LabelBarcode))],
        ids |-> st.ids \cup {line}]
  ELSE IF IsQuantityLine(line)
  THEN [sd |-> QuantityBranch(st.sd, line), ids |-> st.ids \cup {line}]
  ELSE IF IsBreakdownLine(line)
  THEN [sd |-> BreakdownBranch(st.sd, line), ids |-> st.ids \cup {line}]
  ELSE IF IsBarePriceLine(line)
  THEN [sd  |-> IF st.sd.total_price = Empty
                THEN [st.sd EXCEPT !.total_price = Strip(line)]
                ELSE st.sd,
        ids |-> st.ids]
  ELSE st

\* the loop of lines 481-511
RECURSIVE ClassifyLines(_, _)
ClassifyLines(st, lines) ==
  IF lines = <<>> THEN st
  ELSE ClassifyLines(ClassifyLine(st, Head(lines)), Tail(lines))

\* the list comprehension of lines 514-522 (indexes into lines, in order)
CandidateIndexes(lines, ids) ==
  {i \in 1..Len(lines) :
     /\ lines[i] \notin ids
     /\ ~IsDigitStr(lines[i])
     /\ ~DecimalMatch(lines[i])
     /\ Len(lines[i]) >= 5
     /\ ~Contains(lines[i], LabelUktzed)
     /\ ~Contains(lines[i], LabelBarcode)}

\* lines 524-534: max(candidate_lines, key=len) keeps the first of the
\* longest candidates; the fallback is the first line not identified
ProductName(lines, ids) ==
  LET cand == CandidateIndexes(lines, ids)
      rest == {i \in 1..Len(lines) : lines[i] \notin ids}
  IN  IF cand # {}
      THEN lines[SetMin({i \in cand :
                           \A j \in cand : Len(lines[j]) <= Len(lines[i])})]
      ELSE IF rest # {} THEN lines[SetMin(rest)]
      ELSE Empty

(***************************************************************************)
(* _calculate_missing_prices.  An outcome of the try body is the dict it   *)
(* leaves and the exception it raised ("none" when it ran to its end).     *)
(* There is one outcome for every value the formatting of a rounding tie   *)
(* can produce.                                                            *)
(***************************************************************************)
\* the first guard without its test of the default quantity
UnitBranchGuardAnyQuantity(sd) ==
  /\ sd.unit_price = Empty
  /\ sd.total_price # Empty
  /\ sd.quantity # Empty

\* the guard of the first branch, lines 550-551
UnitBranchGuard(sd) ==
  /\ sd.unit_price = Empty
  /\ sd.total_price # Empty
  /\ sd.quantity # Empty
  /\ sd.quantity # <<"1">>

\* the guard of the elif branch, lines 558-559
TotalBranchGuard(sd) ==
  /\ sd.unit_price # Empty
  /\ sd.total_price = Empty
  /\ sd.quantity # Empty

\* lines 552-554
UnitFromTotal(sd) ==
  LET ts == CommaToDot(sd.total_price)
  IN  IF ~IsFloat(ts) \/ ~IsFloat(sd.quantity)
      THEN {[sd |-> sd, exc |-> "ValueError"]}
      ELSE LET t == ParseFloat(ts)
               q == ParseFloat(sd.quantity)
           IN  IF q.num = 0 THEN {[sd |-> sd, exc |-> "ZeroDivisionError"]}
               ELSE {[sd  |-> [sd EXCEPT !.unit_price = Fmt2(h)],
                      exc |-> "none"] :
                       h \in RoundSet(t.num * 100 * Pow10(q.scale),
                                      Pow10(t.scale) * q.num)}

\* the total taken from the unit price alone, the quantity forgotten
TotalFromUnitOnly(sd) ==
  LET us == CommaToDot(sd.unit_price)
  IN  IF ~IsFloat(us) \/ ~IsFloat(sd.quantity)
      THEN {[sd |-> sd, exc |-> "ValueError"]}
      ELSE LET u == ParseFloat(us)
           IN  {[sd  |-> [sd EXCEPT !.total_price = Fmt2(h)],
                 exc |-> "none"] :
                  h \in RoundSet(u.num * 100, Pow10(u.scale))}

\* lines 560-562
TotalFromUnit(sd) ==
  LET us == CommaToDot(sd.unit_price)
  IN  IF ~IsFloat(us) \/ ~IsFloat(sd.quantity)
      THEN {[sd |-> sd, exc |-> "ValueError"]}
      ELSE LET u == ParseFloat(us)
               q == ParseFloat(sd.quantity)
           IN  {[sd  |-> [sd EXCEPT !.total_price = Fmt2(h)],
                 exc |-> "none"] :
                  h \in RoundSet(u.num * q.num * 100,
                                 Pow10(u.scale) * Pow10(q.scale))}

\* the try body, lines 549-563
PriceCalcBody(sd) ==
  IF UnitBranchGuard(sd) THEN UnitFromTotal(sd)
  ELSE IF TotalBranchGuard(sd) THEN TotalFromUnit(sd)
  ELSE {[sd |-> sd, exc |-> "none"]}

\* the except clause of line 564
PriceCalcCaught == {"ValueError", "ZeroDivisionError"}

\* _calculate_missing_prices(sales_data): the dict it leaves, and the
\* exception that leaves it ("none" when it returns)
CalculateMissingPrices(sd) ==
  {[sd     |-> o.sd,
    raised |-> IF o.exc \in PriceCalcCaught THEN "none" ELSE o.exc] :
     o \in PriceCalcBody(sd)}

\* the value returned for an item without meaningful data (None)
NoItem == [none |-> TRUE]

\* an exception leaving a function
Raised(e) == [exception |-> e]

IsRaised(r) == DOMAIN r = {"exception"}

\* lines 540-544
Retained(sd) ==
  sd.product_name # Empty \/ sd.uktzed # Empty \/ sd.barcode # Empty

(***************************************************************************)
(* The parser as a function, for its callers.                              *)
(***************************************************************************)
\* every value _extract_single_item_sales_data(item_content, item_index)
\* can return
ParseItemOutcomes(item_content, item_index) ==
  LET ls == ItemLines(item_content)
      st == ClassifyLines([sd |-> NewSalesData(item_index), ids |-> {}], ls)
      named == [st.sd EXCEPT !.product_name = ProductName(ls, st.ids)]
  IN  {IF o.raised # "none" THEN Raised(o.raised)
       ELSE IF Retained(o.sd) THEN o.sd ELSE NoItem :
         o \in CalculateMissingPrices(named)}

\* the loop of lines 459-462 from segment i on: the list built and the
\* exception that ended the loop ("none" when it ran to its end); where a
\* rounding tie leaves two outcomes for an item, one of them
RECURSIVE ExtractFrom(_, _)
ExtractFrom(segments, i) ==
  IF i > Len(segments) THEN [items |-> <<>>, raised |-> "none"]
  ELSE LET r == CHOOSE x \in ParseItemOutcomes(Strip(segments[i]), i - 1) : TRUE
           rest == ExtractFrom(segments, i + 1)
       IN  IF IsRaised(r) THEN [items |-> <<>>, raised |-> r.exception]
           ELSE IF r = NoItem THEN rest
           ELSE [rest EXCEPT !.items = <<r>> \o @]

\* extract_sales_data(content)
ExtractSalesData(c) ==
  IF c = Empty THEN [items |-> <<>>, raised |-> "none"]
  ELSE ExtractFrom(IF Contains(c, ItemSeparator)
                   THEN Split(c, ItemSeparator) ELSE <<c>>, 1)

(***************************************************************************)
(* Constants of the store and of the polling loop.                         *)
(***************************************************************************)
\* the cap of lines 397-398
MaxEntries == 1000

\* timedelta(days=7), line 425
WindowDays == 7

SecondsPerDay == 86400

\* CHECK_INTERVAL, line 677
NormalInterval == 60

\* ERROR_INTERVAL, line 678
ErrorInterval == 120

\* line 681
MaxConsecutiveErrors == 3

\* Python's None
None == <<"None">>

\* the default of TARGET_URL, line 664
Url ==
  <<"e", "x", "a", "m", "p", "l", "e", ".", "c", "o", "m">>

\* the literal of line 688
NoProductInfo ==
  <<"N", "o", " ", "p", "r", "o", "d", "u", "c", "t", " ", "i", "n", "f", "o",
    "r", "m", "a", "t", "i", "o", "n", " ", "a", "v", "a", "i", "l", "a", "b",
    "l", "e">>

\* what `except Exception` catches: every exception of the model
AllExceptions ==
  {"OSError", "JSONDecodeError", "ValueError", "KeyError", "TypeError",
   "ZeroDivisionError", "AttributeError"}

(***************************************************************************)
(* Timestamps.  datetime.now().isoformat() gives a naive timestamp; a file *)
(* written elsewhere can hold one with a UTC offset or "Z" ("aware"), text *)
(* that is no ISO timestamp ("bad"), or an entry without the key           *)
(* ("missing").  t is the instant in seconds.                              *)
(***************************************************************************)
IsoFormat(t) == [kind |-> "naive", t |-> t]

\* lines 430-431 for one entry: is it appended ("in"), skipped by the test
\* ("out"), or which exception sends it to the except clause of line 433
WindowTest(entry, since) ==
  CASE entry.timestamp.kind = "missing" -> "KeyError"
    [] entry.timestamp.kind = "bad" -> "ValueError"
    [] entry.timestamp.kind = "aware" -> "TypeError"
    [] entry.timestamp.kind = "naive" ->
         IF entry.timestamp.t >= since THEN "in" ELSE "out"

(***************************************************************************)
(* json.dump and json.load on the strings of an entry                      *)
(* (ensure_ascii=False, both files opened as utf-8).                       *)
(***************************************************************************)
JsonEscapeChar(c) ==
  CASE c = "\"" -> <<"\\", "\"">>
    [] c = "\\" -> <<"\\", "\\">>
    [] c = "\n" -> <<"\\", "n">>
    [] c = "\t" -> <<"\\", "t">>
    [] OTHER -> <<c>>

JsonUnescapeChar(c) ==
  CASE c = "n" -> "\n"
    [] c = "t" -> "\t"
    [] OTHER -> c

RECURSIVE JsonDumpStr(_)
JsonDumpStr(str) ==
  IF str = <<>> THEN <<>>
  ELSE JsonEscapeChar(Head(str)) \o JsonDumpStr(Tail(str))

RECURSIVE JsonLoadStr(_)
JsonLoadStr(text) ==
  IF text = <<>> THEN <<>>
  ELSE IF Head(text) = "\\" /\ Len(text) >= 2
  THEN <<JsonUnescapeChar(text[2])>> \o JsonLoadStr(SubSeq(text, 3, Len(text)))
  ELSE <<Head(text)>> \o JsonLoadStr(Tail(text))

ItemStringFields ==
  {"product_name", "uktzed", "barcode", "quantity", "unit_price",
   "total_price", "currency", "price_details", "price_breakdown"}

JsonDumpItem(item) ==
  [f \in DOMAIN item |->
     IF f \in ItemStringFields THEN JsonDumpStr(item[f]) ELSE item[f]]

JsonLoadItem(item) ==
  [f \in DOMAIN item |->
     IF f \in ItemStringFields THEN JsonLoadStr(item[f]) ELSE item[f]]

JsonDumpEntry(entry) ==
  [timestamp   |-> entry.timestamp,
   url         |-> JsonDumpStr(entry.url),
   raw_content |-> JsonDumpStr(entry.raw_content),
   sales_data  |-> [i \in 1..Len(entry.sales_data) |->
                      JsonDumpItem(entry.sales_data[i])],
   item_count  |-> entry.item_count]

JsonLoadEntry(entry) ==
  [timestamp   |-> entry.timestamp,
   url         |-> JsonLoadStr(entry.url),
   raw_content |-> JsonLoadStr(entry.raw_content),
   sales_data  |-> [i \in 1..Len(entry.sales_data) |->
                      JsonLoadItem(entry.sales_data[i])],
   item_count  |-> entry.item_count]

\* what json.load gives for the text json.dump(data) writes
JsonWritten(data) ==
  [i \in 1..Len(data) |-> JsonLoadEntry(JsonDumpEntry(data[i]))]

(***************************************************************************)
(* DataManager.  The data file is held as the list json.load gives for its *)
(* text, with `bytes` telling how much of the text is on disk: "full" (a   *)
(* whole JSON document), "none" (the file is empty, as open(..., 'w')      *)
(* leaves it) or "some" (a flushed prefix of a dump).  Only a full file    *)
(* parses.  io is what the operating system answers: "ok" or "fail".       *)
(***************************************************************************)
FullFile(recs) == [bytes |-> "full", recs |-> recs]

TruncatedFile == [bytes |-> "none", recs |-> <<>>]

PartialFile == [bytes |-> "some", recs |-> <<>>]

\* with open(self.data_file, 'r') as f: data = json.load(f)
ReadJson(f, io) ==
  IF io = "fail" THEN [data |-> <<>>, exc |-> "OSError"]
  ELSE IF f.bytes # "full" THEN [data |-> <<>>, exc |-> "JSONDecodeError"]
  ELSE [data |-> f.recs, exc |-> "none"]

\* except clauses that catch the errors of the operating system only
StoreCaughtOSError == {"OSError"}

\* the except clauses of lines 373, 406, 417 and 439
StoreCaught == AllExceptions

\* what leaves a store method whose body raised exc
Propagated(exc) == IF exc \in StoreCaught THEN "none" ELSE exc

\* get_last_content, lines 361-375
GetLastContent(f, io) ==
  LET r == ReadJson(f, io)
  IN  [value  |-> IF r.exc # "none" \/ r.data = <<>> THEN None
                  ELSE r.data[Len(r.data)].raw_content,
       exc    |-> r.exc,
       raised |-> Propagated(r.exc)]

\* load_data, lines 410-419
LoadData(f, io) ==
  LET r == ReadJson(f, io)
  IN  [value  |-> IF r.exc # "none" THEN <<>> ELSE r.data,
       exc    |-> r.exc,
       raised |-> Propagated(r.exc)]

\* the loop of lines 428-435
RECURSIVE RecentEntries(_, _)
RecentEntries(data, since) ==
  IF data = <<>> THEN <<>>
  ELSE IF WindowTest(Head(data), since) = "in"
  THEN <<Head(data)>> \o RecentEntries(Tail(data), since)
  ELSE RecentEntries(Tail(data), since)

\* get_last_7_days_data, lines 421-441
GetLast7DaysData(f, io, now) ==
  LET r == LoadData(f, io)
  IN  [value  |-> RecentEntries(r.value, now - WindowDays * SecondsPerDay),
       exc    |-> r.exc,
       raised |-> r.raised]

\* an entry that stores the content with the item separator replaced
NewEntryCleaned(now, url, c, extracted) ==
  [timestamp   |-> IsoFormat(now),
   url         |-> url,
   raw_content |-> Join(Split(c, ItemSeparator), <<"\n">>),
   sales_data  |-> extracted,
   item_count  |-> Len(extracted)]

\* the entry of lines 386-392
NewEntry(now, url, c, extracted) ==
  [timestamp   |-> IsoFormat(now),
   url         |-> url,
   raw_content |-> c,
   sales_data  |-> extracted,
   item_count  |-> Len(extracted)]

\* an append that leaves out content equal to the last entry's
AppendEntryOnce(data, entry) ==
  IF data # <<>> /\ data[Len(data)].raw_content = entry.raw_content
  THEN data
  ELSE Append(data, entry)

\* line 394
AppendEntry(data, entry) == Append(data, entry)

\* a trim that keeps the oldest entries: data[:1000]
TrimEntriesKeepFirst(data) ==
  IF Len(data) > MaxEntries THEN SubSeq(data, 1, MaxEntries) ELSE data

\* lines 397-398: data[-1000:]
TrimEntries(data) ==
  IF Len(data) > MaxEntries
  THEN SubSeq(data, Len(data) - MaxEntries + 1, Len(data))
  ELSE data

\* fetch_content, lines 325-335, for the text the page gave (None when
\* nothing could be extracted): what it returns and the new self.last_content
FetchContent(last, extracted) ==
  IF extracted # None /\ extracted # Empty
  THEN IF extracted # last
       THEN [ret |-> extracted, last |-> extracted]
       ELSE [ret |-> None, last |-> last]
  ELSE [ret |-> None, last |-> last]

\* a truth test that also rejects the page without products
TruthyValidContent(c) == c # None /\ c # Empty /\ c # NoProductInfo

\* Python truth of an Optional[str]
Truthy(c) == c # None /\ c # Empty

(***************************************************************************)
(* Sample receipt text.                                                    *)
(***************************************************************************)
L_Uktzed == <<"cU", "cK", "cT", "cZ", "cE", "cD", " ", "1", "2">>
L_Barcode ==
  <<"cW", "ct", "cr", "ci", "cx", "-", "ck", "co", "cd", " ", "4", "8">>
L_Qty2 == <<"5", "0", ".", "0", "0", " ", "*", " ", "2", " ", "cw", "ct">>
L_Qty1 == <<"1", "6", "3", ".", "9", " ", "*", " ", "1", " ", "cw", "ct">>
L_Qty0 == <<"5", " ", "*", " ", "0", " ", "cw", "ct">>
L_QtyText == <<"a", "b", " ", "*", " ", "2", " ", "cw", "ct">>
L_QtyNoUnit == <<"*", " ", "2", " ", "cw", "ct">>
L_QtyNoUnit0 == <<"*", " ", "0", " ", "cw", "ct">>
L_QtyTie == <<"0", ".", "1", "2", "5", " ", "*", " ", "3", " ", "cw", "ct">>
L_Breakdown == <<"1", "6", "3", ".", "9", "0", " ", "(", "cB", ")">>
L_BreakdownTie == <<"0", ",", "0", "5", " ", "(", "cV", ")">>
L_BreakdownBad == <<"1", ".", "2", ".", "3", " ", "(", "cA", ")">>
L_Bare == <<"4", "2">>
L_BareComma == <<"7", ",", "5">>
L_Name == <<"A", "s", "p", "i", "r", "i", "n">>
L_Short == <<"V", "i", "t">>
L_Uktzed2 == <<"cU", "cK", "cT", "cZ", "cE", "cD", " ", "7">>
L_Barcode2 ==
  <<"cW", "ct", "cr", "ci", "cx", "-", "ck", "co", "cd", " ", "9">>
L_QtyMarked == <<"9", "*", "2", "cw", "ct", "(", "cA", ")">>

SampleLines ==
  {L_Uktzed, L_Barcode, L_Qty2, L_Qty1, L_Qty0, L_QtyText, L_QtyNoUnit,
   L_QtyNoUnit0, L_QtyTie, L_Breakdown, L_BreakdownTie, L_BreakdownBad,
   L_Bare, L_BareComma, L_Name, L_Short, L_Uktzed2, L_Barcode2, L_QtyMarked}

\* the text of one item: its lines joined by newlines
SampleItems ==
  {Join(ls, <<"\n">>) :
     ls \in UNION {[1..n -> SampleLines] : n \in 0..MaxLines}}

\* receipts of several items: segments joined by the item separator
SampleSegments == {Empty, L_Bare, L_Name, Join(<<L_Uktzed, L_Qty2>>, <<"\n">>)}

SampleContents ==
  SampleItems \cup
  {Join(segs, ItemSeparator) :
     segs \in UNION {[1..n -> SampleSegments] : n \in 2..MaxSegments}}

(***************************************************************************)
(* State.                                                                  *)
(***************************************************************************)
(***************************************************************************)
(* The top-products functions of lines 567-660.  An amount is a decimal    *)
(* [num, scale], the number num / 10^scale; a rounded amount is a number   *)
(* of hundredths.                                                          *)
(***************************************************************************)
\* top_products[:10], lines 604 and 652
TopLimit == 10

\* does int(s) return (TRUE) or raise ValueError (FALSE)
IsIntLiteral(s) == Strip(s) # Empty /\ IsDigitStr(Strip(s))

\* lines 582-585 and 631-634: float(total_price.replace(',', '.')), 0.0 when
\* it raises ValueError
RevenueOf(item) ==
  IF IsFloat(CommaToDot(item.total_price))
  THEN ParseFloat(CommaToDot(item.total_price))
  ELSE [num |-> 0, scale |-> 0]

\* a + b
AddAmounts(a, b) ==
  LET sc == IF a.scale >= b.scale THEN a.scale ELSE b.scale
  IN  [num   |-> a.num * Pow10(sc - a.scale) + b.num * Pow10(sc - b.scale),
       scale |-> sc]

\* the items of the entries of data that lines 575-579 let through, in order
RECURSIVE NamedItems(_)
NamedItems(data) ==
  IF data = <<>> THEN <<>>
  ELSE SelectSeq(Head(data).sales_data, LAMBDA item : item.product_name # Empty)
         \o NamedItems(Tail(data))

\* lines 587-589 for one item: product_sales after it
AddToGroups(groups, item) ==
  LET at == {g \in 1..Len(groups) : groups[g].product_name = item.product_name}
      new == [product_name |-> item.product_name,
              quantity     |-> StrToInt(Strip(item.quantity)),
              revenue      |-> RevenueOf(item),
              occurrences  |-> 1]
  IN  IF at = {} THEN Append(groups, new)
      ELSE LET g == SetMin(at)
           IN  [groups EXCEPT
                  ![g].quantity = @ + StrToInt(Strip(item.quantity)),
                  ![g].revenue = AddAmounts(@, RevenueOf(item)),
                  ![g].occurrences = @ + 1]

\* the loop of lines 575-589: product_sales in insertion order
RECURSIVE ProductSales(_, _)
ProductSales(groups, items) ==
  IF items = <<>> THEN groups
  ELSE ProductSales(AddToGroups(groups, Head(items)), Tail(items))

\* lines 594-601 for one group: every dict round() can give
TopProductEntries(group) ==
  {[product_name             |-> group.product_name,
    total_quantity           |-> group.quantity,
    total_revenue            |-> rev,
    occurrences              |-> group.occurrences,
    average_revenue_per_sale |-> avg] :
     rev \in RoundSet(group.revenue.num * 100, Pow10(group.revenue.scale)),
     avg \in RoundSet(group.revenue.num * 100,
                      Pow10(group.revenue.scale) * group.occurrences)}

\* lines 592-601: every list top_products can be
RECURSIVE TopProductLists(_)
TopProductLists(groups) ==
  IF groups = <<>> THEN {<<>>}
  ELSE {<<h>> \o t : h \in TopProductEntries(Head(groups)),
                     t \in TopProductLists(Tail(groups))}

\* a sort key that sorts ascending, as without reverse=True
SortKeyAscending(product, key) ==
  IF key = "quantity" THEN 0 - product.total_quantity
  ELSE 0 - product.total_revenue

\* the sort key of lines 603 and 651
SortKey(product, key) ==
  IF key = "quantity" THEN product.total_quantity ELSE product.total_revenue

\* list.sort(key=..., reverse=True) is stable: x goes behind the products
\* whose key is not smaller
RECURSIVE InsertDescending(_, _, _)
InsertDescending(sorted, x, key) ==
  IF sorted = <<>> THEN <<x>>
  ELSE IF SortKey(Head(sorted), key) >= SortKey(x, key)
  THEN <<Head(sorted)>> \o InsertDescending(Tail(sorted), x, key)
  ELSE <<x>> \o sorted

RECURSIVE SortDescending(_, _)
SortDescending(products, key) ==
  IF products = <<>> THEN <<>>
  ELSE InsertDescending(
         SortDescending(SubSeq(products, 1, Len(products) - 1), key),
         products[Len(products)], key)

\* top_products[:10]
FirstTen(products) ==
  IF Len(products) > TopLimit THEN SubSeq(products, 1, TopLimit) ELSE products

\* the body of the try of lines 569-606 (key "quantity") and 618-654 (key
\* "revenue") on the data get_last_7_days_data returned: every value it can
\* return, or the exception it ends with
TopProductsBody(data, key) ==
  LET items == NamedItems(data)
  IN  IF \E i \in 1..Len(items) : ~IsIntLiteral(items[i].quantity)
      THEN {[value |-> <<>>, exc |-> "ValueError"]}
      ELSE {[value |-> FirstTen(SortDescending(products, key)),
             exc   |-> "none"] :
              products \in TopProductLists(ProductSales(<<>>, items))}

\* the except clauses of lines 608 and 656
TopCaught == AllExceptions

\* get_top_selling_products_by_quantity_last_7_days and ..._by_revenue_...:
\* every result of a call, with the exception that ended the body or the
\* read of the data file
TopProducts(f, io, now, key) ==
  LET r == GetLast7DaysData(f, io, now)
  IN  {[value  |-> IF o.exc \in TopCaught THEN <<>> ELSE o.value,
        exc    |-> IF r.exc # "none" THEN r.exc ELSE o.exc,
        raised |-> IF o.exc \in TopCaught THEN "none" ELSE o.exc] :
         o \in TopProductsBody(r.value, key)}

(***************************************************************************)
(* calculate_totals and the two handlers that call it.  A sales_data value *)
(* is written [list |-> items] when it is the list save_data stored and    *)
(* [dict |-> item] when it is one item of that list, since line 972 calls  *)
(* a method that a dict has and a list has not.                            *)
(***************************************************************************)
\* entries.reverse(), line 737
Reverse(entries) == [i \in 1..Len(entries) |-> entries[Len(entries) + 1 - i]]

\* lines 743-748 for one entry of the data file: a row for each of its items
FlattenEntry(entry) ==
  [i \in 1..Len(entry.sales_data) |->
     [timestamp  |-> entry.timestamp,
      url        |-> entry.url,
      sales_data |-> [dict |-> entry.sales_data[i]]]]

\* the loop of lines 740-751; every sales_data of the data file is a list
RECURSIVE FlattenEntries(_)
FlattenEntries(entries) ==
  IF entries = <<>> THEN <<>>
  ELSE FlattenEntry(Head(entries)) \o FlattenEntries(Tail(entries))

\* the entries load_data returned, as line 934 hands them on
RECURSIVE LoadedEntries(_)
LoadedEntries(entries) ==
  IF entries = <<>> THEN <<>>
  ELSE <<[timestamp  |-> Head(entries).timestamp,
          url        |-> Head(entries).url,
          sales_data |-> [list |-> Head(entries).sales_data]]>>
         \o LoadedEntries(Tail(entries))

\* the dict of lines 960-965
NewTotals ==
  [total_sales     |-> [num |-> 0, scale |-> 0],
   total_items     |-> 0,
   unique_products |-> {},
   sales_by_hour   |-> [hour \in 0..23 |-> 0]]

\* lines 971-974: int(quantity), nothing added when it raises ValueError
ItemsCounted(item) ==
  IF IsIntLiteral(item.quantity) THEN StrToInt(Strip(item.quantity)) ELSE 0

\* lines 984-991: the hour of a timestamp that fromisoformat reads
HourOf(timestamp) == (timestamp.t % SecondsPerDay) \div (SecondsPerDay \div 24)

\* lines 971-991 for one entry whose sales_data is a dict
AddToTotals(totals, entry) ==
  LET item == entry.sales_data.dict
  IN  [total_sales     |-> AddAmounts(totals.total_sales, RevenueOf(item)),
       total_items     |-> totals.total_items + ItemsCounted(item),
       unique_products |->
         IF item.product_name # Empty
         THEN totals.unique_products \cup {item.product_name}
         ELSE totals.unique_products,
       sales_by_hour   |->
         IF entry.timestamp.kind \in {"naive", "aware"}
         THEN [totals.sales_by_hour EXCEPT ![HourOf(entry.timestamp)] = @ + 1]
         ELSE totals.sales_by_hour]

\* the loop of lines 967-991: the totals it ends with, or the exception that
\* leaves it; sales_data.get of line 972 raises AttributeError on a list,
\* which the except clause of line 973 does not catch
RECURSIVE TotalsLoop(_, _)
TotalsLoop(totals, entries) ==
  IF entries = <<>> THEN [totals |-> totals, exc |-> "none"]
  ELSE IF DOMAIN Head(entries).sales_data # {"dict"}
  THEN [totals |-> totals, exc |-> "AttributeError"]
  ELSE TotalsLoop(AddToTotals(totals, Head(entries)), Tail(entries))

\* calculate_totals, lines 958-995: every value it can return (total_sales
\* in hundredths), or the exception it raises
CalculateTotals(entries) ==
  LET r == TotalsLoop(NewTotals, entries)
  IN  IF r.exc # "none" THEN {[value |-> None, exc |-> r.exc]}
      ELSE {[value |-> [total_sales           |-> rounded,
                        total_items           |-> r.totals.total_items,
                        unique_products       |-> r.totals.unique_products,
                        sales_by_hour         |-> r.totals.sales_by_hour,
                        unique_products_count |->
                          Cardinality(r.totals.unique_products)],
             exc   |-> "none"] :
              rounded \in RoundSet(r.totals.total_sales.num * 100,
                                   Pow10(r.totals.total_sales.scale))}

\* index, lines 733-762: the totals and the top products it hands to the
\* template (calculated is the exception that left calculate_totals), the
\* exception that ended a read of the data file and the exception that
\* leaves the handler
Index(f, io, io_top, now) ==
  LET loaded == LoadData(f, io)
  IN  {[value  |-> [totals |-> t.value, calculated |-> t.exc,
                    top_products |-> top.value],
        exc    |-> IF loaded.exc # "none" THEN loaded.exc ELSE top.exc,
        raised |-> t.exc] :
         t \in CalculateTotals(FlattenEntries(Reverse(loaded.value))),
         top \in TopProducts(f, io_top, now, "quantity")}

\* api_totals, lines 930-935: what calculate_totals returned; jsonify raises
\* TypeError on the set of unique_products
ApiTotals(f, io) ==
  LET loaded == LoadData(f, io)
  IN  {[value  |-> [totals |-> t.value, calculated |-> t.exc,
                    top_products |-> <<>>],
        exc    |-> loaded.exc,
        raised |-> IF t.exc # "none" THEN t.exc ELSE "TypeError"] :
         t \in CalculateTotals(LoadedEntries(loaded.value))}

(***************************************************************************)
(* Sample pages and sample data files.                                     *)
(***************************************************************************)
\* the records a data file holds when the process starts
MaxInitEntries == 2

\* collection cycles explored
MaxCycles == 2

\* a page with two items, one of them of two lines
PageReceipt ==
  Join(<<Join(<<L_Uktzed, L_Qty2>>, <<"\n">>), L_Name>>, ItemSeparator)

\* a page whose text needs escaping in JSON
PageQuoted == <<"G", "e", "l", " ", "\"", "A", "\\", "B", "\"">>

SamplePages == {PageReceipt, PageQuoted, NoProductInfo}

\* the clock when the process starts
StartTime == (WindowDays + 1) * SecondsPerDay

\* an entry of the data file; the process writes the naive kind only
EntryAt(kind, t, page) ==
  [NewEntry(t, Url, page, ExtractSalesData(page).items)
     EXCEPT !.timestamp = [kind |-> kind, t |-> t]]

\* a file written over time, partly by other tools: entry i of it
SampleEntry(i) ==
  CASE i % 5 = 1 -> EntryAt("aware", StartTime - SecondsPerDay, PageReceipt)
    [] i % 5 = 2 ->
         EntryAt("naive", StartTime - WindowDays * SecondsPerDay - 1, PageQuoted)
    [] i % 5 = 3 -> EntryAt("bad", 0, PageQuoted)
    [] i % 5 = 4 ->
         EntryAt("naive", StartTime - WindowDays * SecondsPerDay + NormalInterval,
                 PageReceipt)
    [] OTHER -> EntryAt("missing", 0, PageQuoted)

SmallHistories ==
  {[i \in 1..n |-> SampleEntry(i)] : n \in 0..MaxInitEntries}

BigItems == ExtractSalesData(L_Short).items

\* a file of n entries the process wrote one normal interval apart
BigHistory(n) ==
  [i \in 1..n |->
     NewEntry(StartTime - (n - i + 1) * NormalInterval, Url, L_Short, BigItems)]

BigHistories == {BigHistory(MaxEntries - 1), BigHistory(MaxEntries)}

\* the entries of a data file read by the top-products functions
MaxTopEntries == 2

\* cycles of the polling loop in the specifications of the loop alone
MaxLoopCycles == 5

\* the records of the data files the loop alone starts on
LoopEntries ==
  {EntryAt("naive", StartTime - NormalInterval, page) :
     page \in {PageQuoted, PageReceipt}}

\* the data files the loop alone starts on: new, or holding one or two
\* records of different pages
LoopHistories ==
  {<<>>} \cup {<<e>> : e \in LoopEntries}
         \cup {x \in LoopEntries \X LoopEntries : x[1] # x[2]}

\* the text of an item: its name, then "<price> * <quantity> <unit>"
ItemText(name, price, quantity) ==
  Join(<<name, price \o <<" ", "*", " ">> \o quantity \o <<" ">> \o UnitSuffix>>,
       <<"\n">>)

N_Bint == <<"B", "i", "n", "t">>

\* Aspirin, 3 at 10.00
PageAspirin3 == ItemText(L_Name, <<"1", "0", ".", "0", "0">>, <<"3">>)

\* Aspirin, 2 at 10.00
PageAspirin2 == ItemText(L_Name, <<"1", "0", ".", "0", "0">>, <<"2">>)

\* Bint, 5 at 7.50, then Aspirin, 1 at 37.50
PagePair ==
  Join(<<ItemText(N_Bint, <<"7", ".", "5", "0">>, <<"5">>),
         ItemText(L_Name, <<"3", "7", ".", "5", "0">>, <<"1">>)>>,
       ItemSeparator)

\* eleven products A .. K, of quantities 2, 3, 1, 2, 3, 1, ... at 1.00
PageMany ==
  Join([k \in 1..11 |->
          ItemText(<<<<"A", "B", "C", "D", "E", "F", "G", "H", "I", "J", "K">>[k]>>,
                   <<"1", ".", "0", "0">>, <<DigitChar((k % 3) + 1)>>)],
       ItemSeparator)

TopEntries ==
  {EntryAt("naive", StartTime - NormalInterval, page) :
     page \in {PageAspirin3, PageAspirin2, PagePair, PageMany}}
    \cup {EntryAt("naive", StartTime - WindowDays * SecondsPerDay - 1,
                  PageAspirin3)}

TopHistories == UNION {[1..n -> TopEntries] : n \in 0..MaxTopEntries}

\* the entries of a data file read by the totals and the top-products
\* functions together
MaxAggEntries == 2

\* quantities in a data file that other tools wrote: an integer, a decimal
\* number and no quantity
FileQuantities == {<<"2">>, <<"2", ".", "5">>, Empty}

\* the item the parser makes of text, holding the quantity another tool wrote
ItemWith(text, quantity) ==
  [ExtractSalesData(text).items[1] EXCEPT !.quantity = quantity]

\* Aspirin at 10.00, Bint at 7.50, and an item that has a tax code but no name
T_Aspirin == ItemText(L_Name, <<"1", "0", ".", "0", "0">>, <<"1">>)

T_Bint == ItemText(N_Bint, <<"7", ".", "5", "0">>, <<"1">>)

T_Unnamed == L_Uktzed

\* an entry of the data file holding items, stamped t
AggEntry(t, items) ==
  [EntryAt("naive", t, PageReceipt)
     EXCEPT !.sales_data = items, !.item_count = Len(items)]

AggEntries ==
  {AggEntry(StartTime - NormalInterval, <<ItemWith(T_Aspirin, q)>>) :
     q \in FileQuantities}
    \cup {AggEntry(StartTime - SecondsPerDay,
                   <<ItemWith(T_Aspirin, q1), ItemWith(T_Bint, q2)>>) :
            q1 \in FileQuantities, q2 \in FileQuantities}
    \cup {AggEntry(StartTime - WindowDays * SecondsPerDay - 1,
                   <<ItemWith(T_Aspirin, <<"2", ".", "5">>)>>),
          AggEntry(StartTime - NormalInterval,
                   <<ItemWith(T_Unnamed, <<"2", ".", "5">>)>>)}

AggHistories == UNION {[1..n -> AggEntries] : n \in 0..MaxAggEntries}

\* what the operating system answers to an open, a read or a write
IO == {"ok", "fail"}

NoCall == [op |-> "none", value |-> None, exc |-> "none", raised |-> "none"]

NoObservation ==
  [op |-> "none", value |-> <<>>, exc |-> "none", raised |-> "none",
   at |-> "none"]

VARIABLES
  \* extract_sales_data and the item parser it calls
  content,              \* the argument of extract_sales_data
  items_content,        \* the segments of content (line 450 / 453)
  seg,                  \* the loop index i of line 459, plus one
  lines,                \* the stripped non-empty lines of the item
  identified_patterns,  \* the set of line 478
  sales_data,           \* the dict being filled in
  result,               \* what the item parser returned last
  all_sales_data,       \* the list of line 457
  perr,                 \* the exception that left the parser, or "none"
  ppc,                  \* where the parser is
  \* the data file, the clock, the polling loop and the request threads
  file,                 \* sales_data.json
  now,                  \* datetime.now(), in seconds
  collector_last,       \* collector.last_content
  cycle_content,        \* content of collect_and_save_data
  last_content,         \* last_content of collect_and_save_data
  data,                 \* data of save_data
  pre,                  \* what save_data read from the file
  saved,                \* what save_data returned last
  consecutive_errors,   \* line 680
  errors_before,        \* consecutive_errors when the cycle began (line 683)
  sleep_time,           \* the last sleep of the loop
  cycles,               \* cycles finished
  crashed_at,           \* where the loop was at the last crash
  outcome,              \* the last store call of this cycle and its result
  obs,                  \* the last store call of a request and its result
  lpc,                  \* where the polling loop is
  \* the cache of AI analyses and the requests of /ai-analysis
  cache,                \* cache._cache (line 30)
  clock,                \* datetime.now() of the cache, in seconds
  apc,                  \* where each request of /ai-analysis is
  cache_key,            \* cache_key of each request (line 76)
  cache_entry,          \* entry of SimpleCache.get in each request
  cached_result         \* what cache.get gave each request (line 77)

pvars ==
  <<content, items_content, seg, lines, identified_patterns, sales_data,
    result, all_sales_data, perr, ppc>>

svars ==
  <<file, now, collector_last, cycle_content, last_content, data, pre, saved,
    consecutive_errors, errors_before, sleep_time, cycles, crashed_at,
    outcome, obs, lpc>>

cvars == <<cache, clock, apc, cache_key, cache_entry, cached_result>>

vars == <<pvars, svars, cvars>>

(***************************************************************************)
(* extract_sales_data, one step per stage of the item parser.              *)
(***************************************************************************)
PInitWith(c) ==
  /\ content = c
  /\ items_content = <<>>
  /\ seg = 1
  /\ lines = <<>>
  /\ identified_patterns = {}
  /\ sales_data = NewSalesData(0)
  /\ result = NoItem
  /\ all_sales_data = <<>>
  /\ perr = "none"

\* lines 445-457
PStart ==
  /\ ppc = "call"
  /\ all_sales_data' = <<>>
  /\ IF content = Empty
     THEN /\ ppc' = "done"
          /\ UNCHANGED items_content
     ELSE /\ ppc' = "loop"
          /\ items_content' = IF Contains(content, ItemSeparator)
                              THEN Split(content, ItemSeparator)
                              ELSE <<content>>
  /\ seg' = 1
  /\ UNCHANGED <<content, lines, identified_patterns, sales_data, result, perr>>
  /\ UNCHANGED <<svars, cvars>>

\* a call of the item parser with the position in the output as its index
PClassifyOutputIndex ==
  /\ ppc = "loop"
  /\ seg <= Len(items_content)
  /\ LET ls == ItemLines(Strip(items_content[seg]))
         st == ClassifyLines([sd |-> NewSalesData(Len(all_sales_data)),
                              ids |-> {}], ls)
     IN  /\ lines' = ls
         /\ sales_data' = st.sd
         /\ identified_patterns' = st.ids
  /\ ppc' = "classified"
  /\ UNCHANGED <<content, items_content, seg, result, all_sales_data, perr>>
  /\ UNCHANGED <<svars, cvars>>

\* line 460 and lines 469-511 of the item parser
PClassify ==
  /\ ppc = "loop"
  /\ seg <= Len(items_content)
  /\ LET ls == ItemLines(Strip(items_content[seg]))
         st == ClassifyLines([sd |-> NewSalesData(seg - 1), ids |-> {}], ls)
     IN  /\ lines' = ls
         /\ sales_data' = st.sd
         /\ identified_patterns' = st.ids
  /\ ppc' = "classified"
  /\ UNCHANGED <<content, items_content, seg, result, all_sales_data, perr>>
  /\ UNCHANGED <<svars, cvars>>

\* lines 513-534
PName ==
  /\ ppc = "classified"
  /\ sales_data' =
       [sales_data EXCEPT !.product_name = ProductName(lines, identified_patterns)]
  /\ ppc' = "named"
  /\ UNCHANGED <<content, items_content, seg, lines, identified_patterns,
                 result, all_sales_data, perr>>
  /\ UNCHANGED <<svars, cvars>>

\* line 537; an exception that leaves it leaves the parser too
PPrices ==
  /\ ppc = "named"
  /\ \E o \in CalculateMissingPrices(sales_data) :
       /\ sales_data' = o.sd
       /\ perr' = o.raised
       /\ ppc' = IF o.raised = "none" THEN "priced" ELSE "raised"
  /\ UNCHANGED <<content, items_content, seg, lines, identified_patterns,
                 result, all_sales_data>>
  /\ UNCHANGED <<svars, cvars>>

\* lines 540-544, then lines 461-462 of the caller
PReturn ==
  /\ ppc = "priced"
  /\ result' = IF Retained(sales_data) THEN sales_data ELSE NoItem
  /\ all_sales_data' = IF Retained(sales_data)
                       THEN Append(all_sales_data, sales_data)
                       ELSE all_sales_data
  /\ seg' = seg + 1
  /\ ppc' = "loop"
  /\ UNCHANGED <<content, items_content, lines, identified_patterns, sales_data,
                 perr>>
  /\ UNCHANGED <<svars, cvars>>

\* lines 464-465
PDone ==
  /\ ppc = "loop"
  /\ seg > Len(items_content)
  /\ ppc' = "done"
  /\ UNCHANGED <<content, items_content, seg, lines, identified_patterns,
                 sales_data, result, all_sales_data, perr>>
  /\ UNCHANGED <<svars, cvars>>

(***************************************************************************)
(* SimpleCache and the requests of /ai-analysis that use it.               *)
(***************************************************************************)
\* timeout=3600 of line 117, the default of line 32
CacheTimeout == 3600

\* steps of the clock of the cache
MaxTicks == 3

\* one step of the clock: half of the timeout, so that a read can fall
\* before the expiry, on it and after it
TickSeconds == CacheTimeout \div 2

\* the threads that serve requests of /ai-analysis at the same time
Requests == {1, 2}

\* products_hash of the request body (line 66)
Hashes == {<<"h", "1">>, <<"h", "2">>}

\* line 76: f"ai_analysis_{products_hash}"
CacheKey(products_hash) ==
  <<"a", "i", "_", "a", "n", "a", "l", "y", "s", "i", "s", "_">>
    \o products_hash

\* what the model answers (line 112), never empty here
Analyses == {<<"A", "1">>, <<"A", "2">>}

\* the KeyError that a lookup or a del of a missing key raises
KeyError == <<"KeyError">>

\* entry of a request that has not read one
NoEntry == [value |-> Empty, expires |-> 0]

\* lines 33-36: self._cache[key] = {'value': ..., 'expires': now + timeout}
SimpleCacheSet(c, key, value, timeout, t) ==
  [k \in DOMAIN c \cup {key} |->
     IF k = key THEN [value |-> value, expires |-> t + timeout] ELSE c[k]]

\* line 44: del self._cache[key]
SimpleCacheDel(c, key) == [k \in DOMAIN c \ {key} |-> c[k]]

\* line 48: cache = SimpleCache(), and no request being served
CacheStarted ==
  /\ cache = <<>>
  /\ clock = 0
  /\ apc = [t \in Requests |-> "idle"]
  /\ cache_key = [t \in Requests |-> Empty]
  /\ cache_entry = [t \in Requests |-> NoEntry]
  /\ cached_result = [t \in Requests |-> None]

\* the process as collect_and_save_data finds it at line 683, on a data file
\* holding history
StartedOn(history) ==
  /\ file = FullFile(history)
  /\ now = StartTime
  /\ collector_last = Empty
  /\ cycle_content = None
  /\ last_content = None
  /\ data = <<>>
  /\ pre = <<>>
  /\ saved = FALSE
  /\ consecutive_errors = 0
  /\ errors_before = 0
  /\ sleep_time = 0
  /\ cycles = 0
  /\ crashed_at = "none"
  /\ outcome = NoCall
  /\ obs = NoObservation
  /\ lpc = "cycle"
  /\ CacheStarted

ParseInit ==
  /\ ppc = "call"
  /\ \E c \in SampleContents : PInitWith(c)
  /\ StartedOn(<<>>)

ParseNext == PStart \/ PClassify \/ PName \/ PPrices \/ PReturn \/ PDone

SpecParse == ParseInit /\ [][ParseNext]_vars

\* the True and False that save_data returns (lines 405 and 408)
True == <<"True">>

False == <<"False">>

(***************************************************************************)
(* The polling loop of collect_and_save_data, one step per call that       *)
(* reads or writes the data file, and the requests that read it.           *)
(***************************************************************************)
\* the result of a store call of the loop: what it returned, the exception
\* its body ended with and the exception that left it
CallResult(op, value, exc) ==
  [op |-> op, value |-> value, exc |-> exc, raised |-> Propagated(exc)]

\* the same for a call of a request thread, made while the loop was at `at`
Observation(op, r, at) ==
  [op |-> op, value |-> r.value, exc |-> r.exc, raised |-> r.raised,
   at |-> at]

\* line 686
FetchFrom(pages, bound) ==
  /\ lpc = "cycle"
  /\ cycles < bound
  /\ \E extracted \in pages :
       LET r == FetchContent(collector_last, extracted)
       IN  /\ cycle_content' = r.ret
           /\ collector_last' = r.last
  /\ lpc' = "fetched"
  /\ obs' = NoObservation
  /\ UNCHANGED <<file, now, last_content, data, pre, saved,
                 consecutive_errors, errors_before, sleep_time, cycles,
                 crashed_at, outcome, pvars, cvars>>

\* what the extraction of line 323 can give: a page, or nothing
FetchedPages == SamplePages \cup {None}

\* line 686 on any page, or on a failed extraction
Fetch == FetchFrom(FetchedPages, MaxCycles)

\* lines 688-691 and 698-701; an exception that leaves get_last_content is
\* handled by lines 720-727
CheckContent ==
  /\ lpc = "fetched"
  /\ IF Truthy(cycle_content) /\ cycle_content # NoProductInfo
     THEN \E io \in IO :
            LET r == GetLastContent(file, io)
            IN  /\ outcome' = CallResult("get_last_content", r.value, r.exc)
                /\ IF r.raised # "none"
                   THEN /\ consecutive_errors' = consecutive_errors + 1
                        /\ errors_before' = consecutive_errors + 1
                        /\ collector_last' = Empty
                        /\ sleep_time' = ErrorInterval
                        /\ now' = now + ErrorInterval
                        /\ cycles' = cycles + 1
                        /\ lpc' = "cycle"
                        /\ UNCHANGED last_content
                   ELSE /\ last_content' = r.value
                        /\ lpc' = IF cycle_content # r.value
                                  THEN "save_read" ELSE "end"
                        /\ UNCHANGED <<consecutive_errors, errors_before, collector_last,
                                       sleep_time, now, cycles>>
     ELSE /\ consecutive_errors' = consecutive_errors + 1
          /\ lpc' = "end"
          /\ UNCHANGED <<outcome, last_content, collector_last, sleep_time,
                         now, cycles, errors_before>>
  /\ obs' = NoObservation
  /\ UNCHANGED <<file, cycle_content, data, pre, saved, crashed_at,
                 pvars, cvars>>

\* save_data has ended with exc: lines 405-408, then lines 692-696 of the
\* loop, or lines 720-727 when the exception left save_data
SaveReturns(exc) ==
  /\ outcome' = CallResult("save_data", IF exc = "none" THEN True ELSE False,
                           exc)
  /\ saved' = (exc = "none")
  /\ data' = <<>>
  /\ IF Propagated(exc) # "none"
     THEN /\ consecutive_errors' = consecutive_errors + 1
          /\ errors_before' = consecutive_errors + 1
          /\ collector_last' = Empty
          /\ sleep_time' = ErrorInterval
          /\ now' = now + ErrorInterval
          /\ cycles' = cycles + 1
          /\ lpc' = "cycle"
     ELSE /\ consecutive_errors' = IF exc = "none" THEN consecutive_errors
                                   ELSE consecutive_errors + 1
          /\ lpc' = "end"
          /\ UNCHANGED <<collector_last, sleep_time, now, cycles,
                         errors_before>>

\* lines 380-398: read the file, build the entry, append, trim
SaveRead ==
  /\ lpc = "save_read"
  /\ \E io \in IO :
       LET r == ReadJson(file, io)
           x == ExtractSalesData(cycle_content)
           exc == IF r.exc # "none" THEN r.exc ELSE x.raised
       IN  IF exc # "none"
           THEN /\ SaveReturns(exc)
                /\ UNCHANGED pre
           ELSE /\ pre' = r.data
                /\ data' = TrimEntries(AppendEntry(r.data,
                             NewEntry(now, Url, cycle_content, x.items)))
                /\ lpc' = "save_open"
                /\ UNCHANGED <<outcome, saved, consecutive_errors, errors_before,
                               collector_last, sleep_time, now, cycles>>
  /\ obs' = NoObservation
  /\ UNCHANGED <<file, cycle_content, last_content, crashed_at, pvars, cvars>>

\* line 401: open(self.data_file, 'w') empties the file
SaveOpen ==
  /\ lpc = "save_open"
  /\ \E io \in IO :
       IF io = "fail"
       THEN /\ SaveReturns("OSError")
            /\ UNCHANGED file
       ELSE /\ file' = TruncatedFile
            /\ lpc' = "save_dump"
            /\ UNCHANGED <<outcome, saved, data, consecutive_errors, errors_before,
                           collector_last, sleep_time, now, cycles>>
  /\ obs' = NoObservation
  /\ UNCHANGED <<cycle_content, last_content, pre, crashed_at, pvars, cvars>>

\* line 402 while the text is being written: a part of it reaches the disk
SaveFlush ==
  /\ lpc = "save_dump"
  /\ file = TruncatedFile
  /\ file' = PartialFile
  /\ obs' = NoObservation
  /\ UNCHANGED <<now, collector_last, cycle_content, last_content, data, pre,
                 saved, consecutive_errors, errors_before, sleep_time, cycles, crashed_at,
                 outcome, lpc, pvars, cvars>>

\* lines 402-405: the dump and the close end, or a write fails
SaveDump ==
  /\ lpc = "save_dump"
  /\ \E io \in IO :
       IF io = "fail"
       THEN /\ SaveReturns("OSError")
            /\ UNCHANGED file
       ELSE /\ file' = FullFile(JsonWritten(data))
            /\ SaveReturns("none")
  /\ obs' = NoObservation
  /\ UNCHANGED <<cycle_content, last_content, pre, crashed_at, pvars, cvars>>

\* a loop that gives up when the failures reach the threshold
EndCycleGivesUp ==
  /\ lpc = "end"
  /\ (Truthy(cycle_content) \/ consecutive_errors < MaxConsecutiveErrors)
  /\ LET errors == IF Truthy(cycle_content) THEN 0 ELSE consecutive_errors
         sleep == IF errors >= MaxConsecutiveErrors THEN ErrorInterval * 2
                  ELSE IF errors > 0 THEN ErrorInterval
                  ELSE NormalInterval
     IN  /\ consecutive_errors' = errors
         /\ errors_before' = errors
         /\ collector_last' = IF errors >= MaxConsecutiveErrors THEN Empty
                              ELSE collector_last
         /\ sleep_time' = sleep
         /\ now' = now + sleep
  /\ cycles' = cycles + 1
  /\ pre' = <<>>
  /\ outcome' = NoCall
  /\ lpc' = "cycle"
  /\ obs' = NoObservation
  /\ UNCHANGED <<file, cycle_content, last_content, data, saved, crashed_at,
                 pvars, cvars>>

\* lines 704-718
EndCycle ==
  /\ lpc = "end"
  /\ LET errors == IF Truthy(cycle_content) THEN 0 ELSE consecutive_errors
         sleep == IF errors >= MaxConsecutiveErrors THEN ErrorInterval * 2
                  ELSE IF errors > 0 THEN ErrorInterval
                  ELSE NormalInterval
     IN  /\ consecutive_errors' = errors
         /\ errors_before' = errors
         /\ collector_last' = IF errors >= MaxConsecutiveErrors THEN Empty
                              ELSE collector_last
         /\ sleep_time' = sleep
         /\ now' = now + sleep
  /\ cycles' = cycles + 1
  /\ pre' = <<>>
  /\ outcome' = NoCall
  /\ lpc' = "cycle"
  /\ obs' = NoObservation
  /\ UNCHANGED <<file, cycle_content, last_content, data, saved, crashed_at,
                 pvars, cvars>>

\* the process dies and is started again: lines 731 and 1006, then 664-681.
\* Only the data file survives; the cycle it cut short counts as a cycle.
Crash ==
  /\ cycles < MaxCycles
  /\ cycles' = cycles + 1
  /\ crashed_at' = lpc
  /\ collector_last' = Empty
  /\ cycle_content' = None
  /\ last_content' = None
  /\ data' = <<>>
  /\ saved' = FALSE
  /\ consecutive_errors' = 0
  /\ errors_before' = 0
  /\ sleep_time' = 0
  /\ outcome' = NoCall
  /\ obs' = NoObservation
  /\ lpc' = "cycle"
  /\ UNCHANGED <<file, now, pre, pvars, cvars>>

\* a request thread calls load_data (lines 736, 770, 823, 927, 933, 946)
RequestLoadData ==
  /\ \E io \in IO :
       LET r == LoadData(file, io)
       IN  obs' = Observation("load_data", r, lpc)
  /\ UNCHANGED <<file, now, collector_last, cycle_content, last_content, data,
                 pre, saved, consecutive_errors, errors_before, sleep_time, cycles, crashed_at,
                 outcome, lpc, pvars, cvars>>

\* a request thread calls get_last_7_days_data (lines 570 and 619)
RequestLast7Days ==
  /\ \E io \in IO :
       LET r == GetLast7DaysData(file, io, now)
       IN  obs' = Observation("get_last_7_days_data", r, lpc)
  /\ UNCHANGED <<file, now, collector_last, cycle_content, last_content, data,
                 pre, saved, consecutive_errors, errors_before, sleep_time, cycles, crashed_at,
                 outcome, lpc, pvars, cvars>>

\* a request thread calls get_top_selling_products_by_quantity_last_7_days
\* (lines 757 and 940)
RequestTopByQuantity ==
  /\ \E io \in IO :
       \E r \in TopProducts(file, io, now, "quantity") :
         obs' = Observation("top_by_quantity", r, lpc)
  /\ UNCHANGED <<file, now, collector_last, cycle_content, last_content, data,
                 pre, saved, consecutive_errors, errors_before, sleep_time, cycles, crashed_at,
                 outcome, lpc, pvars, cvars>>

\* a call of get_top_selling_products_by_revenue_last_7_days
RequestTopByRevenue ==
  /\ \E io \in IO :
       \E r \in TopProducts(file, io, now, "revenue") :
         obs' = Observation("top_by_revenue", r, lpc)
  /\ UNCHANGED <<file, now, collector_last, cycle_content, last_content, data,
                 pre, saved, consecutive_errors, errors_before, sleep_time, cycles, crashed_at,
                 outcome, lpc, pvars, cvars>>

\* a request thread serves / (lines 733-762)
RequestIndex ==
  /\ \E io \in IO, io_top \in IO :
       \E r \in Index(file, io, io_top, now) :
         obs' = Observation("index", r, lpc)
  /\ UNCHANGED <<file, now, collector_last, cycle_content, last_content, data,
                 pre, saved, consecutive_errors, errors_before, sleep_time, cycles, crashed_at,
                 outcome, lpc, pvars, cvars>>

\* a request thread serves /api/totals (lines 930-935)
RequestApiTotals ==
  /\ \E io \in IO :
       \E r \in ApiTotals(file, io) :
         obs' = Observation("api_totals", r, lpc)
  /\ UNCHANGED <<file, now, collector_last, cycle_content, last_content, data,
                 pre, saved, consecutive_errors, errors_before, sleep_time, cycles, crashed_at,
                 outcome, lpc, pvars, cvars>>

Init ==
  /\ ppc = "idle"
  /\ PInitWith(Empty)
  /\ \E history \in SmallHistories : StartedOn(history)

Next ==
  \/ Fetch
  \/ CheckContent
  \/ SaveRead
  \/ SaveOpen
  \/ SaveFlush
  \/ SaveDump
  \/ EndCycle
  \/ Crash
  \/ RequestLoadData
  \/ RequestLast7Days

Spec == Init /\ [][Next]_vars

\* the polling loop alone on a data file at the cap of lines 397-398
InitCap ==
  /\ ppc = "idle"
  /\ PInitWith(Empty)
  /\ \E history \in BigHistories : StartedOn(history)

NextCap ==
  \/ Fetch
  \/ CheckContent
  \/ SaveRead
  \/ SaveOpen
  \/ SaveDump
  \/ EndCycle

SpecCap == InitCap /\ [][NextCap]_vars

\* the top-products functions alone, on data files of sample sales
InitTop ==
  /\ ppc = "idle"
  /\ PInitWith(Empty)
  /\ \E history \in TopHistories : StartedOn(history)

NextTop ==
  \/ RequestTopByQuantity
  \/ RequestTopByRevenue

SpecTop == InitTop /\ [][NextTop]_vars

\* the totals and the top-products functions, on data files whose
\* quantities other tools wrote
InitAgg ==
  /\ ppc = "idle"
  /\ PInitWith(Empty)
  /\ \E history \in AggHistories : StartedOn(history)

NextAgg ==
  \/ RequestTopByQuantity
  \/ RequestTopByRevenue
  \/ RequestIndex
  \/ RequestApiTotals

SpecAgg == InitAgg /\ [][NextAgg]_vars

\* the polling loop alone over more cycles, started on a new data file or
\* on one that holds a record
InitLoop ==
  /\ ppc = "idle"
  /\ PInitWith(Empty)
  /\ \E history \in LoopHistories : StartedOn(history)

\* what the extraction gives in the loop alone: a page of sales, a page
\* without products, or nothing
LoopPages == {PageReceipt, NoProductInfo, None}

\* line 686 on a page of sales, on a page without products, or on a
\* failed extraction
FetchLoop == FetchFrom(LoopPages, MaxLoopCycles)

NextLoop ==
  \/ FetchLoop
  \/ CheckContent
  \/ SaveRead
  \/ SaveOpen
  \/ SaveFlush
  \/ SaveDump
  \/ EndCycle

\* where the loop is; every step of the loop changes it
progress == <<lpc, cycles, file.bytes>>

\* every call of the loop body returns (page load and waits have timeouts,
\* lines 182-183, 208, 213; the sleeps are finite), so the thread goes on
FairLoop == WF_progress(NextLoop)

SpecLoop == InitLoop /\ [][NextLoop]_vars /\ FairLoop

\* the polling loop while the page keeps showing PageReceipt
SamePage == {PageReceipt}

FetchSamePage == FetchFrom(SamePage, MaxLoopCycles)

NextSamePage ==
  \/ FetchSamePage
  \/ CheckContent
  \/ SaveRead
  \/ SaveOpen
  \/ SaveFlush
  \/ SaveDump
  \/ EndCycle

SpecSamePage ==
  InitLoop /\ [][NextSamePage]_vars /\ WF_progress(NextSamePage)

\* a request of /ai-analysis with products and a products_hash arrives:
\* lines 64-76
AiRequest(t) ==
  /\ apc[t] = "idle"
  /\ \E h \in Hashes : cache_key' = [cache_key EXCEPT ![t] = CacheKey(h)]
  /\ apc' = [apc EXCEPT ![t] = "get"]
  /\ UNCHANGED <<cache, clock, cache_entry, cached_result, pvars, svars>>

\* line 39: if key in self._cache, else line 45
GetIn(t) ==
  /\ apc[t] = "get"
  /\ IF cache_key[t] \in DOMAIN cache
     THEN /\ apc' = [apc EXCEPT ![t] = "get_entry"]
          /\ UNCHANGED cached_result
     ELSE /\ cached_result' = [cached_result EXCEPT ![t] = None]
          /\ apc' = [apc EXCEPT ![t] = "got"]
  /\ UNCHANGED <<cache, clock, cache_key, cache_entry, pvars, svars>>

\* line 40: entry = self._cache[key]; a KeyError leaves get and is caught
\* by line 125
GetEntry(t) ==
  /\ apc[t] = "get_entry"
  /\ IF cache_key[t] \in DOMAIN cache
     THEN /\ cache_entry' = [cache_entry EXCEPT ![t] = cache[cache_key[t]]]
          /\ apc' = [apc EXCEPT ![t] = "get_expires"]
          /\ UNCHANGED cached_result
     ELSE /\ cached_result' = [cached_result EXCEPT ![t] = KeyError]
          /\ apc' = [apc EXCEPT ![t] = "failed"]
          /\ UNCHANGED cache_entry
  /\ UNCHANGED <<cache, clock, cache_key, pvars, svars>>

\* lines 41-43: if datetime.now() < entry['expires']: return entry['value']
GetExpires(t) ==
  /\ apc[t] = "get_expires"
  /\ IF clock < cache_entry[t].expires
     THEN /\ cached_result' =
               [cached_result EXCEPT ![t] = cache_entry[t].value]
          /\ cache_entry' = [cache_entry EXCEPT ![t] = NoEntry]
          /\ apc' = [apc EXCEPT ![t] = "got"]
     ELSE /\ apc' = [apc EXCEPT ![t] = "get_del"]
          /\ UNCHANGED <<cached_result, cache_entry>>
  /\ UNCHANGED <<cache, clock, cache_key, pvars, svars>>

\* lines 44-45: del self._cache[key]; return None
GetDel(t) ==
  /\ apc[t] = "get_del"
  /\ IF cache_key[t] \in DOMAIN cache
     THEN /\ cache' = SimpleCacheDel(cache, cache_key[t])
          /\ cached_result' = [cached_result EXCEPT ![t] = None]
          /\ apc' = [apc EXCEPT ![t] = "got"]
     ELSE /\ cached_result' = [cached_result EXCEPT ![t] = KeyError]
          /\ apc' = [apc EXCEPT ![t] = "failed"]
          /\ UNCHANGED cache
  /\ cache_entry' = [cache_entry EXCEPT ![t] = NoEntry]
  /\ UNCHANGED <<clock, cache_key, pvars, svars>>

\* the request ends: its locals are gone
Responded(t) ==
  /\ apc' = [apc EXCEPT ![t] = "idle"]
  /\ cache_key' = [cache_key EXCEPT ![t] = Empty]
  /\ cached_result' = [cached_result EXCEPT ![t] = None]
  /\ UNCHANGED <<clock, cache_entry, pvars, svars>>

\* lines 78-84: a cached result is returned; otherwise the model is asked
AiCached(t) ==
  /\ apc[t] = "got"
  /\ IF Truthy(cached_result[t])
     THEN /\ Responded(t)
          /\ UNCHANGED cache
     ELSE /\ apc' = [apc EXCEPT ![t] = "call"]
          /\ UNCHANGED <<cache, clock, cache_key, cache_entry, cached_result,
                         pvars, svars>>

\* lines 101-123: the model answers and the answer is cached for an hour
AiAnalysed(t) ==
  /\ apc[t] = "call"
  /\ \E analysis \in Analyses :
       cache' = SimpleCacheSet(cache, cache_key[t], analysis, CacheTimeout,
                               clock)
  /\ Responded(t)

\* lines 125-127: the exception that left cache.get is answered with a 500
AiFailed(t) ==
  /\ apc[t] = "failed"
  /\ Responded(t)
  /\ UNCHANGED cache

\* time passes
Tick ==
  /\ clock < MaxTicks * TickSeconds
  /\ clock' = clock + TickSeconds
  /\ UNCHANGED <<cache, apc, cache_key, cache_entry, cached_result, pvars,
                 svars>>

InitCache ==
  /\ ppc = "idle"
  /\ PInitWith(Empty)
  /\ StartedOn(<<>>)

NextCache ==
  \/ \E t \in Requests : AiRequest(t)
  \/ \E t \in Requests : GetIn(t)
  \/ \E t \in Requests : GetEntry(t)
  \/ \E t \in Requests : GetExpires(t)
  \/ \E t \in Requests : GetDel(t)
  \/ \E t \in Requests : AiCached(t)
  \/ \E t \in Requests : AiAnalysed(t)
  \/ \E t \in Requests : AiFailed(t)
  \/ Tick

SpecCache == InitCache /\ [][NextCache]_vars

(***************************************************************************)
(* Properties of the store.                                                *)
(***************************************************************************)
Abs(x) == IF x < 0 THEN -x ELSE x

\* the step on which save_data writes the file and returns True
SaveCommits == lpc = "save_dump" /\ lpc' = "end" /\ saved'

\* the loop has just come back from a save_data that returned True
SaveSucceeded ==
  lpc = "end" /\ outcome.op = "save_data" /\ outcome.exc = "none"

\* save_data was called with the raw_content of the last entry of the file
DuplicateContent == pre # <<>> /\ pre[Len(pre)].raw_content = cycle_content

\* save_data has read the file and has not returned yet
SaveInProgress == lpc \in {"save_open", "save_dump"}

\* the step on which a request thread reads the file
RequestServed == obs' # obs /\ obs'.op # "none"

C15_NoAdjacentDuplicates ==
  \A i \in 1..(Len(file.recs) - 1) :
    file.recs[i].raw_content # file.recs[i + 1].raw_content

\* the loop goes from the end of a cycle's work to the top of the loop:
\* lines 704-718
CycleEnds == lpc = "end" /\ lpc' = "cycle"

\* the fetch of this cycle returned nothing, or its save_data failed
FailedCycle ==
  \/ cycle_content = None
  \/ outcome.op = "save_data" /\ outcome.exc # "none"

\* C16: the counter of failures counts the run of consecutive failed cycles,
\* a cycle being failed when its fetch or its save failed: it grows by one
\* on a failed cycle and is 0 after any other.  When it reaches 3 the loop
\* sleeps twice the error interval, and after a cycle that did not fail the
\* loop sleeps the normal interval.
C16_BackOffOnFailures ==
  [][CycleEnds
       => /\ consecutive_errors' = IF FailedCycle THEN errors_before + 1
                                   ELSE 0
          /\ (consecutive_errors' >= MaxConsecutiveErrors
                => sleep_time' = ErrorInterval * 2)
          /\ (consecutive_errors' = 0 => sleep_time' = NormalInterval)]_vars

\* C17: the loop never stops.  At the top of the loop the next cycle
\* starts with a fetch, and a cycle that has started comes back to the top
\* of the loop whatever the page, the fetch, the store calls and the save
\* did.
C17_LoopGoesOn ==
  \A k \in 0..(MaxLoopCycles - 1) :
    /\ (cycles = k /\ lpc = "cycle") ~> (cycles = k /\ lpc = "fetched")
    /\ (cycles = k /\ lpc # "cycle") ~> (cycles = k + 1 /\ lpc = "cycle")

\* C17 witness: the cycle after three cycles without content has started,
\* on a data file that a failed save has left without its text
C17_Witness ==
  /\ lpc = "fetched"
  /\ cycles >= MaxConsecutiveErrors
  /\ sleep_time = ErrorInterval * 2
  /\ file.bytes # "full"

FirstSaveFailed ==
  /\ cycles = 0
  /\ lpc = "end"
  /\ outcome.op = "save_data"
  /\ outcome.exc # "none"

\* no read, open or write of the data file fails after the first cycle
StoreWorksLater == cycles >= 1 => outcome.exc # "OSError"

\* the data file ends with a record of the page
PageStored ==
  /\ file.bytes = "full"
  /\ file.recs # <<>>
  /\ file.recs[Len(file.recs)].raw_content = PageReceipt

ViewOf(op, history, t) ==
  IF op = "load_data" THEN history
  ELSE RecentEntries(history, t - WindowDays * SecondsPerDay)

\* C2: a request that reads the file while save_data is between its read and
\* its return, and whose own open and read do not fail, gets the history
\* before the append or the history after it.
C2_ReaderSeesBeforeOrAfter ==
  [][RequestServed /\ SaveInProgress /\ obs'.exc # "OSError"
       => obs'.value \in {ViewOf(obs'.op, pre, now),
                          ViewOf(obs'.op, JsonWritten(data), now)}]_vars

\* C3: the file never holds more than 1000 records; a successful save_data
\* puts the new record last and keeps the records it read in their order,
\* all of them below the cap and all but the oldest at the cap.
C3_BoundedFifo ==
  [][/\ Len(file'.recs) <= MaxEntries
     /\ (SaveCommits
           => /\ file'.recs[Len(file'.recs)].raw_content = cycle_content
              /\ IF Len(pre) >= MaxEntries
                 THEN /\ Len(file'.recs) = MaxEntries
                      /\ SubSeq(file'.recs, 1, MaxEntries - 1)
                           = SubSeq(pre, 2, MaxEntries)
                 ELSE /\ Len(file'.recs) = Len(pre) + 1
                      /\ SubSeq(file'.recs, 1, Len(pre)) = pre)]_vars

\* a save_data on a file of 1000 records has returned True: the oldest
\* record is gone and the second oldest is first
C3_Witness ==
  /\ SaveSucceeded
  /\ Len(pre) = MaxEntries
  /\ Len(file.recs) = MaxEntries
  /\ file.recs[1] = pre[2]
  /\ file.recs[1] # pre[1]
  /\ file.recs[MaxEntries].raw_content = cycle_content

\* the records save_data may drop from a history of n records
Evicted(n) == IF n >= MaxEntries THEN n - MaxEntries + 1 ELSE 0

\* the process dies while save_data is between its read and its return
CrashInSave ==
  /\ SaveInProgress
  /\ crashed_at' = lpc
  /\ lpc' = "cycle"
  /\ outcome' = NoCall

\* C4: after a crash inside save_data, load_data returns every record the
\* call had read from the file, but for the ones the cap evicts.
C4_CrashKeepsHistory ==
  [][CrashInSave
       => LET after == LoadData(file', "ok").value
              kept == SubSeq(pre, Evicted(Len(pre)) + 1, Len(pre))
          IN  /\ Len(after) >= Len(kept)
              /\ SubSeq(after, 1, Len(kept)) = kept]_vars

\* C5: once save_data(url, content) has returned True, load_data returns a
\* history whose last record has raw_content = content, preceded by the
\* records save_data had read (but for the evicted ones), every field of
\* them as it was.
C5_RoundTrip ==
  SaveSucceeded
    => LET loaded == LoadData(file, "ok").value
           k == Len(loaded) - 1
       IN  /\ loaded # <<>>
           /\ loaded[Len(loaded)].raw_content = cycle_content
           /\ k = Len(pre) - Evicted(Len(pre))
           /\ SubSeq(loaded, 1, k) = SubSeq(pre, Len(pre) - k + 1, Len(pre))

\* a content with quotes and a backslash has been saved after other records
C5_Witness ==
  /\ SaveSucceeded
  /\ pre # <<>>
  /\ cycle_content = PageQuoted
  /\ LoadData(file, "ok").value[Len(pre) + 1].raw_content = PageQuoted

\* what a store method returns from its except clause
FailureValue(op) ==
  CASE op = "get_last_content" -> None
    [] op = "save_data" -> False
    [] OTHER -> <<>>

\* C6: a store call whose body ended with an exception returned None
\* (get_last_content), [] (load_data, get_last_7_days_data) or False
\* (save_data), and no exception left a store call, in the loop or in a
\* request.
C6_FailureSemantics ==
  /\ outcome.raised = "none"
  /\ obs.raised = "none"
  /\ (outcome.exc # "none" => outcome.value = FailureValue(outcome.op))
  /\ (obs.exc # "none" => obs.value = FailureValue(obs.op))

\* a write of save_data failed and left a file that a request cannot parse
C6_Witness ==
  /\ outcome.op = "save_data"
  /\ outcome.exc = "OSError"
  /\ outcome.value = False
  /\ obs.op = "load_data"
  /\ obs.exc = "JSONDecodeError"
  /\ obs.value = <<>>

\* the timestamp of the entry is an ISO timestamp
TimestampParses(entry) == entry.timestamp.kind \in {"naive", "aware"}

\* C7: get_last_7_days_data returns the records of the file whose timestamp
\* parses and is not older than seven days, in stored order.
C7_WindowIsExact ==
  (obs.op = "get_last_7_days_data" /\ obs.exc = "none")
    => LET InWindow(entry) ==
             /\ TimestampParses(entry)
             /\ entry.timestamp.t >= now - WindowDays * SecondsPerDay
       IN  obs.value = SelectSeq(file.recs, InWindow)

(***************************************************************************)
(* Properties of the cache.                                                *)
(***************************************************************************)
\* cache.get of request t returns or raises on this step
GetReturned(t) ==
  /\ apc[t] \in {"get", "get_entry", "get_expires", "get_del"}
  /\ apc'[t] \in {"got", "failed"}

\* C18: cache.get(key) returns the cached value of the key only while the
\* clock is strictly before the expiry of its entry, and returns None
\* otherwise, never raising; an entry leaves the cache only at or after its
\* expiry, so the value of the most recent set is there until then.
C18_CacheExpiry ==
  [][/\ \A t \in Requests :
          GetReturned(t)
            => /\ cached_result'[t] # KeyError
               /\ (cached_result'[t] \notin {None, KeyError}
                     => /\ clock < cache_entry[t].expires
                        /\ cached_result'[t] = cache_entry[t].value)
     /\ \A k \in DOMAIN cache \ DOMAIN cache' :
          clock >= cache[k].expires]_vars

(***************************************************************************)
(* Properties of the top-products functions.                               *)
(***************************************************************************)
\* the quantities of the items of a name, added up
RECURSIVE QuantitySum(_, _)
QuantitySum(items, name) ==
  IF items = <<>> THEN 0
  ELSE (IF Head(items).product_name = name
        THEN StrToInt(Strip(Head(items).quantity)) ELSE 0)
         + QuantitySum(Tail(items), name)

\* the revenues of the items of a name, added up
RECURSIVE RevenueSum(_, _)
RevenueSum(items, name) ==
  IF items = <<>> THEN [num |-> 0, scale |-> 0]
  ELSE IF Head(items).product_name = name
  THEN AddAmounts(RevenueOf(Head(items)), RevenueSum(Tail(items), name))
  ELSE RevenueSum(Tail(items), name)

\* where the items of a name are
PositionsOf(items, name) ==
  {i \in 1..Len(items) : items[i].product_name = name}

\* hundredths is the amount rounded to 2 decimals
IsRoundedAmount(hundredths, amount) ==
  2 * Abs(hundredths * Pow10(amount.scale) - 100 * amount.num)
    <= Pow10(amount.scale)

\* product is the group of its name among items
IsGroupOf(product, items) ==
  /\ PositionsOf(items, product.product_name) # {}
  /\ product.occurrences = Cardinality(PositionsOf(items, product.product_name))
  /\ product.total_quantity = QuantitySum(items, product.product_name)
  /\ IsRoundedAmount(product.total_revenue,
                     RevenueSum(items, product.product_name))

\* the total by which a product is ranked
RankedBy(product, key) ==
  IF key = "quantity" THEN product.total_quantity ELSE product.total_revenue

\* product a stands before product b: a bigger total, or the same total and
\* a name met earlier
RanksBefore(a, b, items, key) ==
  \/ RankedBy(a, key) > RankedBy(b, key)
  \/ /\ RankedBy(a, key) = RankedBy(b, key)
     /\ SetMin(PositionsOf(items, a.product_name))
          < SetMin(PositionsOf(items, b.product_name))

\* a name left out of top ranks behind every product of it
LeftOutBehind(name, top, items, key) ==
  \A k \in 1..Len(top) :
    \E rev \in RoundSet(RevenueSum(items, name).num * 100,
                        Pow10(RevenueSum(items, name).scale)) :
      RanksBefore(top[k],
                  [product_name |-> name,
                   total_quantity |-> QuantitySum(items, name),
                   total_revenue |-> rev],
                  items, key)

\* top is the top ten of the groups of items by key
IsTopTen(top, items, key) ==
  LET names == {items[i].product_name : i \in 1..Len(items)}
      listed == {top[k].product_name : k \in 1..Len(top)}
  IN  /\ Len(top) = IF Cardinality(names) > TopLimit THEN TopLimit
                       ELSE Cardinality(names)
      /\ \A k \in 1..Len(top) : IsGroupOf(top[k], items)
      /\ \A k \in 1..(Len(top) - 1) :
           RanksBefore(top[k], top[k + 1], items, key)
      /\ \A name \in names \ listed : LeftOutBehind(name, top, items, key)

\* the items of the last seven days of the data file that have a name
WindowItems ==
  NamedItems(RecentEntries(file.recs, now - WindowDays * SecondsPerDay))

\* C14: when the data file was read and every quantity is an integer, the
\* result of a top-products function has one product per product_name of
\* the items of the last seven days, with the quantities and the revenues
\* of the name added up and its items counted, sorted descending by the key
\* of the function, products of equal key in the order in which their names
\* were first met, cut to the first 10.
C14_TopProducts ==
  (/\ obs.op \in {"top_by_quantity", "top_by_revenue"}
   /\ obs.exc = "none"
   /\ \A i \in 1..Len(WindowItems) : IsIntLiteral(WindowItems[i].quantity))
    => IsTopTen(obs.value, WindowItems,
                IF obs.op = "top_by_quantity" THEN "quantity" ELSE "revenue")

\* C14 witness: two sales of Aspirin, of 3 and of 2, make one product of
\* 2 occurrences and quantity 5
C14_Witness ==
  /\ obs.op = "top_by_quantity"
  /\ Len(file.recs) = 2
  /\ file.recs[1].raw_content = PageAspirin3
  /\ file.recs[2].raw_content = PageAspirin2
  /\ Len(obs.value) = 1
  /\ obs.value[1].product_name = L_Name
  /\ obs.value[1].occurrences = 2
  /\ obs.value[1].total_quantity = 5
  /\ obs.value[1].total_revenue = 5000

(***************************************************************************)
(* Properties of the aggregation on quantities that are no integers.       *)
(***************************************************************************)
\* an item of the last seven days that has a name has a quantity that int()
\* does not read
BadQuantityInWindow ==
  \E i \in 1..Len(WindowItems) : ~IsIntLiteral(WindowItems[i].quantity)

\* no read of the data file failed in the request
FileWasRead == obs.exc \notin {"OSError", "JSONDecodeError"}

\* every item of the data file, in the order of the file
RECURSIVE ItemsOfFile(_)
ItemsOfFile(recs) ==
  IF recs = <<>> THEN <<>>
  ELSE Head(recs).sales_data \o ItemsOfFile(Tail(recs))

\* the quantities of items that are integers, added up
RECURSIVE IntegerQuantities(_)
IntegerQuantities(items) ==
  IF items = <<>> THEN 0
  ELSE (IF IsIntLiteral(Head(items).quantity)
        THEN StrToInt(Strip(Head(items).quantity)) ELSE 0)
         + IntegerQuantities(Tail(items))

\* the prices of items that are numbers, added up, in hundredths
RECURSIVE PricesSum(_)
PricesSum(items) ==
  IF items = <<>> THEN [num |-> 0, scale |-> 0]
  ELSE AddAmounts(RevenueOf(Head(items)), PricesSum(Tail(items)))

\* totals counts every item of items, one whose quantity is no integer with
\* quantity 0
IsTotalsOf(totals, items) ==
  /\ totals.total_items = IntegerQuantities(items)
  /\ IsRoundedAmount(totals.total_sales, PricesSum(items))
  /\ totals.unique_products =
       {items[i].product_name : i \in 1..Len(items)} \ {Empty}

IsNumeric(s) == IsFloat(CommaToDot(s))

NumberOf(s) == ParseFloat(CommaToDot(s))

\* total has two decimals and is unit * quantity to within half a cent
IsRoundedProduct(total, unit, quantity) ==
  /\ IsFloat(total)
  /\ LET t == ParseFloat(total)
         u == NumberOf(unit)
         q == ParseFloat(quantity)
         k == Pow10(u.scale + q.scale)
     IN  /\ t.scale = 2
         /\ 2 * Abs(t.num * k - 100 * u.num * q.num) <= k

\* unit has two decimals and is total / quantity to within half a cent
IsRoundedQuotient(unit, total, quantity) ==
  /\ IsFloat(unit)
  /\ LET u == ParseFloat(unit)
         t == NumberOf(total)
         q == ParseFloat(quantity)
         k == Pow10(t.scale)
     IN  /\ u.scale = 2
         /\ q.num # 0
         /\ 2 * Abs(u.num * k * q.num - 100 * t.num * Pow10(q.scale))
              <= k * q.num

\* the step that runs _calculate_missing_prices
PricesStep == ppc = "named" /\ ppc' \in {"priced", "raised"}

\* the item parser has just returned
ItemReturned == ppc = "loop" /\ seg > 1

\* the role the if/elif chain of lines 482-508 gives a line
RoleOf(line) ==
  CASE IsUktzedLine(line) -> "uktzed"
    [] ~IsUktzedLine(line) /\ IsBarcodeLine(line) -> "barcode"
    [] OTHER ->
         IF IsQuantityLine(line) THEN "quantity"
         ELSE IF IsBreakdownLine(line) THEN "breakdown"
         ELSE IF IsBarePriceLine(line) THEN "bare"
         ELSE "text"

\* the positions of the lines of a role
RoleIndexes(ls, role) == {i \in 1..Len(ls) : RoleOf(ls[i]) = role}

\* the step that classifies the lines of an item
ClassifyStep == ppc = "loop" /\ ppc' = "classified"

\* the fields the loop of lines 481-511 writes
ClassifiedFields(sd) ==
  [uktzed |-> sd.uktzed, barcode |-> sd.barcode,
   price_details |-> sd.price_details, unit_price |-> sd.unit_price,
   quantity |-> sd.quantity, price_breakdown |-> sd.price_breakdown,
   total_price |-> sd.total_price]

\* the count of a quantity line
CountOf(line) == QuantityMatch(Split(line, <<"*">>)[2])

\* the fields of an item of lines ls when the last line of a role wins
LastWinsFields(ls) ==
  LET uktzeds == RoleIndexes(ls, "uktzed")
      barcodes == RoleIndexes(ls, "barcode")
      quantities == RoleIndexes(ls, "quantity")
      breakdowns == RoleIndexes(ls, "breakdown")
      bares == RoleIndexes(ls, "bare")
      counted == {i \in 1..Len(ls) :
                    RoleOf(ls[i]) = "quantity" /\ CountOf(ls[i]) # NoMatch}
      priced == {i \in 1..Len(ls) :
                   RoleOf(ls[i]) = "breakdown" /\ PriceMatch(ls[i]) # NoMatch}
  IN  [uktzed |-> IF uktzeds = {} THEN Empty
                  ELSE Strip(Remove(ls[SetMax(uktzeds)], LabelUktzed)),
       barcode |-> IF barcodes = {} THEN Empty
                   ELSE Strip(Remove(ls[SetMax(barcodes)], LabelBarcode)),
       price_details |-> IF quantities = {} THEN Empty
                         ELSE ls[SetMax(quantities)],
       unit_price |-> IF quantities = {} THEN Empty
                      ELSE Strip(Split(ls[SetMax(quantities)], <<"*">>)[1]),
       quantity |-> IF counted = {} THEN <<"1">>
                    ELSE CountOf(ls[SetMax(counted)]),
       price_breakdown |-> IF breakdowns = {} THEN Empty
                           ELSE ls[SetMax(breakdowns)],
       total_price |-> IF priced # {} THEN PriceMatch(ls[SetMax(priced)])
                       ELSE IF bares # {} THEN Strip(ls[SetMin(bares)])
                       ELSE Empty]

\* C11 as stated: uktzed, barcode, price_details and price_breakdown hold
\* the values of the first line of their role.
C11_FirstWins ==
  [][ClassifyStep =>
       LET first(role) == lines'[SetMin(RoleIndexes(lines', role))]
           some(role) == RoleIndexes(lines', role) # {}
       IN  /\ some("uktzed") =>
                sales_data'.uktzed = Strip(Remove(first("uktzed"), LabelUktzed))
           /\ some("barcode") =>
                sales_data'.barcode
                  = Strip(Remove(first("barcode"), LabelBarcode))
           /\ some("quantity") =>
                sales_data'.price_details = first("quantity")
           /\ some("breakdown") =>
                sales_data'.price_breakdown = first("breakdown")]_vars

\* C11 amended: every line of a role overwrites what an earlier line of the
\* role wrote.  uktzed, barcode, price_details, unit_price and
\* price_breakdown hold the values of the last line of their role (empty
\* when there is none); quantity is the count of the last quantity line in
\* which the count pattern matched ("1" when there is none); total_price
\* is the amount of the last breakdown line in which the amount pattern
\* matched, else the first bare number, else empty.
C11_LastWins ==
  [][ClassifyStep => ClassifiedFields(sales_data') = LastWinsFields(lines')]_vars

\* C11 witness: of two quantity lines the second one is kept
C11_Witness ==
  /\ ppc = "classified"
  /\ lines = <<L_Qty2, L_Qty1>>
  /\ sales_data.price_details = L_Qty1
  /\ sales_data.unit_price = <<"1", "6", "3", ".", "9">>
  /\ sales_data.quantity = <<"1">>

\* the step that chooses the product name
NameStep == ppc = "classified" /\ ppc' = "named"

\* C12: every line has the effect of its first matching rule only, and the
\* product name, when there is one, is a line no rule of the chain
\* matched: not a label line, a quantity line, a breakdown line or a bare
\* number.
C12_OneRolePerLine ==
  [][/\ ClassifyStep
          => ClassifiedFields(sales_data') = LastWinsFields(lines')
     /\ NameStep
          => \/ sales_data'.product_name = Empty
             \/ \E i \in 1..Len(lines) :
                  /\ lines[i] = sales_data'.product_name
                  /\ RoleOf(lines[i]) = "text"]_vars

\* the segments extract_sales_data cuts content into (lines 445-453)
SegmentsOf(c) ==
  IF c = Empty THEN <<>>
  ELSE IF Contains(c, ItemSeparator) THEN Split(c, ItemSeparator)
  ELSE <<c>>

\* the item parser returns a record for segment i of segs
SegmentKept(segs, i) == NoItem \notin ParseItemOutcomes(Strip(segs[i]), i - 1)

\* C13: extract_sales_data returns one record per segment for which the
\* item parser returns a record, in segment order; the item_index of a
\* record is the zero-based position of its segment in the split input.
C13_SegmentOrderAndIndex ==
  ppc = "done"
    => LET segs == SegmentsOf(content)
           out == all_sales_data
       IN  /\ \A k \in 1..Len(out) :
                /\ out[k].item_index \in 0..(Len(segs) - 1)
                /\ out[k] \in ParseItemOutcomes(
                                 Strip(segs[out[k].item_index + 1]),
                                 out[k].item_index)
           /\ \A k \in 1..(Len(out) - 1) :
                out[k].item_index < out[k + 1].item_index
           /\ \A i \in 1..Len(segs) :
                SegmentKept(segs, i)
                  <=> \E k \in 1..Len(out) : out[k].item_index = i - 1

\* C13 witness: the second of three segments was dropped and the third
\* record keeps the index 2
C13_Witness ==
  /\ ppc = "done"
  /\ Len(items_content) = 3
  /\ Len(all_sales_data) = 2
  /\ all_sales_data[1].item_index = 0
  /\ all_sales_data[2].item_index = 2

\* C8: an item whose only line is a bare number makes the item parser
\* return null: the line taken as a bare price is not its product name.
C8_BareNumberItemDropped ==
  (ItemReturned /\ Len(lines) = 1 /\ IsBarePriceLine(lines[1]))
    => result = NoItem

\* C9 as stated: whenever unit_price and a quantity other than 1 are
\* present and total_price is absent after the classification,
\* total_price becomes unit_price * quantity rounded to 2 decimals.
C9_TotalDerivedWheneverUnitPresent ==
  [][(/\ PricesStep
      /\ sales_data.unit_price # Empty
      /\ sales_data.quantity # <<"1">>
      /\ sales_data.total_price = Empty)
       => /\ IsNumeric(sales_data.unit_price)
          /\ IsRoundedProduct(sales_data'.total_price, sales_data.unit_price,
                              sales_data.quantity)]_vars

\* C9 amended: whenever unit_price and a quantity other than 1 are present
\* and total_price is absent after the classification, total_price becomes
\* unit_price * quantity rounded to 2 decimals if unit_price reads as a
\* number, and stays empty if it does not.
C9_TotalDerived ==
  [][(/\ PricesStep
      /\ sales_data.unit_price # Empty
      /\ sales_data.quantity # <<"1">>
      /\ sales_data.total_price = Empty)
       => IF IsNumeric(sales_data.unit_price)
          THEN IsRoundedProduct(sales_data'.total_price, sales_data.unit_price,
                                sales_data.quantity)
          ELSE sales_data'.total_price = Empty]_vars

\* C9 witness: the one line "50.00 * 2 <unit>" has got the total "100.00"
C9_Witness ==
  /\ ppc = "priced"
  /\ lines = <<L_Qty2>>
  /\ sales_data.unit_price = <<"5", "0", ".", "0", "0">>
  /\ sales_data.quantity = <<"2">>
  /\ sales_data.total_price = <<"1", "0", "0", ".", "0", "0">>

\* the quantity reads as a number other than zero
QuantityKnown(sd) ==
  IsFloat(sd.quantity) /\ ParseFloat(sd.quantity).num # 0

\* C10 as stated: whenever exactly one of unit_price / total_price is
\* present (and numeric) and the quantity is known, the default "1"
\* included, the missing one is derived so that total = unit * quantity to
\* 2 decimals; when the quantity is zero or not a number nothing changes;
\* no exception is raised.
C10_DerivedBothWaysAnyQuantity ==
  [][PricesStep =>
       /\ perr' = "none"
       /\ (/\ QuantityKnown(sales_data)
           /\ sales_data.unit_price # Empty
           /\ sales_data.total_price = Empty
           /\ IsNumeric(sales_data.unit_price))
            => IsRoundedProduct(sales_data'.total_price, sales_data.unit_price,
                                sales_data.quantity)
       /\ (/\ QuantityKnown(sales_data)
           /\ sales_data.unit_price = Empty
           /\ sales_data.total_price # Empty
           /\ IsNumeric(sales_data.total_price))
            => IsRoundedQuotient(sales_data'.unit_price, sales_data.total_price,
                                 sales_data.quantity)
       /\ ~QuantityKnown(sales_data) => sales_data' = sales_data]_vars

\* C10 amended: total_price is derived from unit_price for every numeric
\* quantity ("1" and "0" included); unit_price is derived from total_price
\* only for a numeric quantity that is not zero and not the string "1",
\* and is left empty for the quantity "1"; a price that is not a number, a
\* division by zero, both prices present or both absent leave the item as
\* it was; the other price is never changed and no exception is raised.
C10_PriceDerivation ==
  [][PricesStep =>
       /\ perr' = "none"
       /\ IF sales_data.unit_price # Empty /\ sales_data.total_price = Empty
          THEN IF IsNumeric(sales_data.unit_price) /\ IsFloat(sales_data.quantity)
               THEN /\ IsRoundedProduct(sales_data'.total_price,
                                        sales_data.unit_price, sales_data.quantity)
                    /\ sales_data' =
                         [sales_data EXCEPT !.total_price = sales_data'.total_price]
               ELSE sales_data' = sales_data
          ELSE IF sales_data.unit_price = Empty /\ sales_data.total_price # Empty
          THEN IF /\ sales_data.quantity # <<"1">>
                  /\ QuantityKnown(sales_data)
                  /\ IsNumeric(sales_data.total_price)
               THEN /\ IsRoundedQuotient(sales_data'.unit_price,
                                         sales_data.total_price, sales_data.quantity)
                    /\ sales_data' =
                         [sales_data EXCEPT !.unit_price = sales_data'.unit_price]
               ELSE sales_data' = sales_data
          ELSE sales_data' = sales_data]_vars

\* C10 witness: a unit price derived from the total of a breakdown line
\* and the quantity 2
C10_Witness ==
  /\ ppc = "priced"
  /\ sales_data.price_details = L_QtyNoUnit
  /\ sales_data.quantity = <<"2">>
  /\ sales_data.total_price = <<"1", "6", "3", ".", "9", "0">>
  /\ sales_data.unit_price = <<"8", "1", ".", "9", "5">>

====
